---------------------------- MODULE Spec2Model ----------------------------
(***************************************************************************)
(* Model of the expense tracker component (ExpenseTracker) of the event    *)
(* planning front-end: the validation schema of the expense form, the      *)
(* submit and approval handlers, and the derived balance list.             *)
(*                                                                         *)
(* JavaScript numbers are IEEE 754 binary64 values.  They are modelled     *)
(* exactly: a number is a sign, a 53-bit significand and an exponent, and  *)
(* every arithmetic operation rounds to nearest, ties to even, as the      *)
(* hardware does.  TLC's integers are 32 bits wide, so significands are    *)
(* kept as little-endian sequences of 15-bit limbs.                        *)
(***************************************************************************)
EXTENDS Integers, Sequences, FiniteSets, TLC

(***************************************************************************)
(* Natural numbers of arbitrary size: little-endian limb sequences with no *)
(* leading zero limb; <<>> is zero.                                        *)
(***************************************************************************)
LimbBits == 15

RECURSIVE Pow2(_)
Pow2(k) == IF k = 0 THEN 1 ELSE 2 * Pow2(k - 1)

Base == Pow2(LimbBits)

RECURSIVE Trim(_)
Trim(x) ==
    IF x = <<>> THEN <<>>
    ELSE IF x[Len(x)] = 0 THEN Trim(SubSeq(x, 1, Len(x) - 1))
    ELSE x

RECURSIVE BigFromNat(_)
BigFromNat(n) ==
    IF n = 0 THEN <<>> ELSE <<n % Base>> \o BigFromNat(n \div Base)

RECURSIVE BigAddC(_, _, _)
BigAddC(x, y, c) ==
    IF x = <<>> /\ y = <<>> THEN (IF c = 0 THEN <<>> ELSE <<c>>)
    ELSE LET a == IF x = <<>> THEN 0 ELSE Head(x)
             b == IF y = <<>> THEN 0 ELSE Head(y)
             s == a + b + c
         IN  <<s % Base>> \o
             BigAddC(IF x = <<>> THEN <<>> ELSE Tail(x),
                     IF y = <<>> THEN <<>> ELSE Tail(y), s \div Base)

BigAdd(x, y) == BigAddC(x, y, 0)

\* x - y - b for x >= y + b, before trimming
RECURSIVE BigSubB(_, _, _)
BigSubB(x, y, b) ==
    IF x = <<>> THEN <<>>
    ELSE LET s == Head(x) - (IF y = <<>> THEN 0 ELSE Head(y)) - b
         IN  <<IF s < 0 THEN s + Base ELSE s>> \o
             BigSubB(Tail(x), IF y = <<>> THEN <<>> ELSE Tail(y),
                     IF s < 0 THEN 1 ELSE 0)

BigSub(x, y) == Trim(BigSubB(x, y, 0))

\* -1, 0 or 1 as x < y, x = y or x > y
RECURSIVE BigCmpFrom(_, _, _)
BigCmpFrom(x, y, i) ==
    IF i = 0 THEN 0
    ELSE IF x[i] < y[i] THEN -1
    ELSE IF x[i] > y[i] THEN 1
    ELSE BigCmpFrom(x, y, i - 1)

BigCmp(x, y) ==
    IF Len(x) < Len(y) THEN -1
    ELSE IF Len(x) > Len(y) THEN 1
    ELSE BigCmpFrom(x, y, Len(x))

\* x * k + c for 0 <= k < Base, 0 <= c < Base, before trimming
RECURSIVE BigMulSmallC(_, _, _)
BigMulSmallC(x, k, c) ==
    IF x = <<>> THEN (IF c = 0 THEN <<>> ELSE <<c>>)
    ELSE LET p == Head(x) * k + c
         IN  <<p % Base>> \o BigMulSmallC(Tail(x), k, p \div Base)

BigMulSmall(x, k) == Trim(BigMulSmallC(x, k, 0))

\* x shifted up by one limb
ShiftLimb(x) == IF x = <<>> THEN <<>> ELSE <<0>> \o x

RECURSIVE BigMul(_, _)
BigMul(x, y) ==
    IF x = <<>> \/ y = <<>> THEN <<>>
    ELSE BigAdd(BigMulSmall(x, Head(y)), ShiftLimb(BigMul(x, Tail(y))))

\* quotient and remainder of the limbs i..1 of x by k, 0 < k <= Base, from
\* the top limb down; r is the remainder and q the quotient so far
RECURSIVE BigDivSmallFrom(_, _, _, _, _)
BigDivSmallFrom(x, k, i, r, q) ==
    IF i = 0 THEN [q |-> Trim(q), r |-> r]
    ELSE BigDivSmallFrom(x, k, i - 1, (r * Base + x[i]) % k,
                         <<(r * Base + x[i]) \div k>> \o q)

BigDivSmall(x, k) == BigDivSmallFrom(x, k, Len(x), 0, <<>>)

RECURSIVE IntBitLen(_)
IntBitLen(n) == IF n = 0 THEN 0 ELSE 1 + IntBitLen(n \div 2)

BitLen(x) ==
    IF x = <<>> THEN 0
    ELSE LimbBits * (Len(x) - 1) + IntBitLen(x[Len(x)])

RECURSIVE Zeros(_)
Zeros(n) == IF n = 0 THEN <<>> ELSE <<0>> \o Zeros(n - 1)

ShiftLeft(x, s) ==
    IF x = <<>> THEN <<>>
    ELSE Zeros(s \div LimbBits) \o BigMulSmall(x, Pow2(s % LimbBits))

\* the limbs of x below and from limb n + 1
LowLimbs(x, n) == SubSeq(x, 1, IF n < Len(x) THEN n ELSE Len(x))
HighLimbs(x, n) == IF n < Len(x) THEN SubSeq(x, n + 1, Len(x)) ELSE <<>>

WithSticky(d, lost) == [q |-> d.q, sticky |-> (d.r # 0) \/ lost]

\* x shifted right by s bits; sticky tells whether a 1 bit was shifted out
ShiftRight(x, s) ==
    WithSticky(BigDivSmall(HighLimbs(x, s \div LimbBits), Pow2(s % LimbBits)),
               Trim(LowLimbs(x, s \div LimbBits)) # <<>>)

IsOdd(x) == x # <<>> /\ x[1] % 2 = 1

(***************************************************************************)
(* JavaScript numbers.  A finite number is [neg, m, e] with value          *)
(* (-1)^neg * m * 2^e, where m has exactly Precision bits, or is zero      *)
(* (then neg = FALSE and e = 0, so equal numbers are equal records; +0 and *)
(* -0 compare equal in JavaScript and are not told apart here).  The       *)
(* amounts the model uses stay far from the overflow and underflow         *)
(* thresholds, so the exponent is not bounded.  NaN and the infinities     *)
(* never enter a computation the model performs: the schema rejects them   *)
(* as input, and the one division by zero the code can perform yields a    *)
(* value that is never read (see finalSplitDetails).                       *)
(***************************************************************************)
Precision == 53

Zero == [neg |-> FALSE, m |-> <<>>, e |-> 0]

\* m may have one bit too many after rounding up
Renormalise(neg, m, e) ==
    IF BitLen(m) > Precision
    THEN [neg |-> neg, m |-> BigDivSmall(m, 2).q, e |-> e + 1]
    ELSE [neg |-> neg, m |-> m, e |-> e]

\* d.q is the significand and d.r the first bit below it; sticky tells
\* whether a lower bit is set.  Round to nearest, ties to even.
RoundHalf(neg, d, e, sticky) ==
    Renormalise(neg,
                IF d.r = 1 /\ (sticky \/ IsOdd(d.q))
                THEN BigAdd(d.q, <<1>>) ELSE d.q,
                e)

RoundShifted(neg, sh, e, sticky) ==
    RoundHalf(neg, BigDivSmall(sh.q, 2), e, sh.sticky \/ sticky)

RoundBits(neg, M, e, sticky, L) ==
    IF L <= Precision
    THEN [neg |-> neg, m |-> ShiftLeft(M, Precision - L),
          e |-> e - (Precision - L)]
    ELSE RoundShifted(neg, ShiftRight(M, L - Precision - 1),
                      e + (L - Precision), sticky)

\* The number nearest to (-1)^neg * (M + f) * 2^e, where 0 <= f < 1 and
\* sticky tells whether f > 0 (then M has more than Precision bits).
RoundToNumber(neg, M, e, sticky) ==
    IF M = <<>> THEN Zero ELSE RoundBits(neg, M, e, sticky, BitLen(M))

\* The number that an integer literal or an array length denotes.
FromInt(i) ==
    RoundToNumber(i < 0, BigFromNat(IF i < 0 THEN -i ELSE i), 0, FALSE)

IsZero(a) == a.m = <<>>

FNeg(a) == IF IsZero(a) THEN a ELSE [a EXCEPT !.neg = ~a.neg]

FAbs(a) == [a EXCEPT !.neg = FALSE]

RoundQuotient(neg, d, e) == RoundToNumber(neg, d.q, e, d.r # 0)

\* a / k for an integer 0 < k <= Base.  Every divisor in the code is a small
\* positive integer (an array length, or the literal 100), and so is the
\* power of ten of a decimal literal: the significand, with enough bits
\* appended, is divided exactly by k, and the quotient is rounded once.
FDiv(a, k) ==
    IF IsZero(a) THEN Zero
    ELSE RoundQuotient(a.neg, BigDivSmall(ShiftLeft(a.m, 2 * LimbBits), k),
                       a.e - 2 * LimbBits)

FMul(a, b) ==
    IF IsZero(a) \/ IsZero(b) THEN Zero
    ELSE RoundToNumber(a.neg # b.neg, BigMul(a.m, b.m), a.e + b.e, FALSE)

\* A * 2^e and B * 2^e are the magnitudes of the operands, c compares them
AddAligned(aneg, bneg, A, B, e, c) ==
    RoundToNumber(IF aneg = bneg \/ c >= 0 THEN aneg ELSE bneg,
                  IF aneg = bneg THEN BigAdd(A, B)
                  ELSE IF c >= 0 THEN BigSub(A, B) ELSE BigSub(B, A),
                  e, FALSE)

AddAt(a, b, e) ==
    AddAligned(a.neg, b.neg, ShiftLeft(a.m, a.e - e), ShiftLeft(b.m, b.e - e),
               e, BigCmp(ShiftLeft(a.m, a.e - e), ShiftLeft(b.m, b.e - e)))

FAdd(a, b) ==
    IF IsZero(a) THEN b
    ELSE IF IsZero(b) THEN a
    ELSE AddAt(a, b, IF a.e < b.e THEN a.e ELSE b.e)

FSub(a, b) == FAdd(a, FNeg(b))

IsPositive(a) == ~IsZero(a) /\ ~a.neg

\* a > b
FGt(a, b) == IsPositive(FSub(a, b))

\* a decimal literal n/d with d a power of ten, e.g. 0.005 is Dec(5, 1000):
\* the number nearest to the decimal, which is what the correctly rounded
\* quotient of the two integers is
Dec(n, d) == FDiv(FromInt(n), d)

(***************************************************************************)
(* Optional values: <<>> is undefined, <<v>> is the value v.               *)
(***************************************************************************)
Undefined == <<>>
Some(v) == <<v>>
IsDefined(o) == o # <<>>

\* (o || 0) for an optional number: undefined and 0 both give 0
OrZero(o) == IF IsDefined(o) THEN o[1] ELSE Zero

\* (o || []) for an optional array
OrEmpty(o) == IF IsDefined(o) THEN o[1] ELSE <<>>

RECURSIVE SeqToSet(_)
SeqToSet(s) == IF s = <<>> THEN {} ELSE {Head(s)} \cup SeqToSet(Tail(s))

\* array.map(f)
Map(f(_), s) == [i \in 1..Len(s) |-> f(s[i])]

(***************************************************************************)
(* State.  participants and initialExpenses are the component's props;     *)
(* expenses is its state (useState); calculatedBalances is the memoised    *)
(* balance list, recomputed on every render whose expenses or participants *)
(* changed; formErrors is what the resolver reported for the last submit;  *)
(* now is the clock that new Date() reads.  candidate is the form data     *)
(* under test in the single-submit specification.                          *)
(* An expense keeps the fields the handlers and the balance computation    *)
(* read or write; eventId, currency, date, category and the receipt are    *)
(* copied through unchanged by the code and are left out.                  *)
(***************************************************************************)
VARIABLES participants, initialExpenses, expenses, calculatedBalances,
          formErrors, now, candidate

(***************************************************************************)
(* The other components of the repository keep their own state.  Each      *)
(* specification mounts one component; the variables of the others keep    *)
(* the values given by the ...Unmounted predicates below.                  *)
(*   RSVPManager:  eventDetails, rsvps; rsvpsChanged is TRUE from a change *)
(*                 of rsvps until the guest-count effect has run           *)
(*   RsvpPage:     invitation, eventDetail, isSubmitting,                  *)
(*                 submittedRsvpStatus; rsvpData is the record the submit  *)
(*                 handler builds and logs, timers the pending setTimeout  *)
(*                 callbacks                                               *)
(*   EventTaskListParticipantView: currentParticipantId, tasks             *)
(*   InvitationManager: the initialInvitations prop, invitations,          *)
(*                 showSubInviteModal; its pending setTimeout callbacks    *)
(*                 are in timers                                           *)
(***************************************************************************)
VARIABLES eventDetails, rsvps, rsvpsChanged,
          invitation, eventDetail, isSubmitting, submittedRsvpStatus,
          rsvpData, timers,
          currentParticipantId, tasks,
          initialInvitations, invitations, showSubInviteModal

vars == <<participants, initialExpenses, expenses, calculatedBalances,
          formErrors, now, candidate,
          eventDetails, rsvps, rsvpsChanged,
          invitation, eventDetail, isSubmitting, submittedRsvpStatus,
          rsvpData, timers,
          currentParticipantId, tasks,
          initialInvitations, invitations, showSubInviteModal>>

expenseState == <<participants, initialExpenses, expenses, calculatedBalances,
                  formErrors, candidate>>
rsvpVars == <<eventDetails, rsvps, rsvpsChanged>>
pageVars == <<invitation, eventDetail, isSubmitting, submittedRsvpStatus,
              rsvpData, timers>>
taskVars == <<currentParticipantId, tasks>>
inviteVars == <<initialInvitations, invitations, showSubInviteModal>>

ExpenseTrackerUnmounted ==
    /\ participants = <<>>
    /\ initialExpenses = <<>>
    /\ expenses = <<>>
    /\ calculatedBalances = <<>>
    /\ formErrors = {}
    /\ candidate = <<>>

RSVPManagerUnmounted ==
    /\ eventDetails = <<>>
    /\ rsvps = <<>>
    /\ rsvpsChanged = FALSE

RsvpPageUnmounted ==
    /\ invitation = <<>>
    /\ eventDetail = <<>>
    /\ isSubmitting = FALSE
    /\ submittedRsvpStatus = <<>>
    /\ rsvpData = <<>>
    /\ timers = <<>>

TaskViewUnmounted ==
    /\ currentParticipantId = ""
    /\ tasks = <<>>

InvitationManagerUnmounted ==
    /\ initialInvitations = <<>>
    /\ invitations = <<>>
    /\ showSubInviteModal = <<>>

\* the expense tracker is the only mounted component
OnlyExpenseTracker ==
    /\ RSVPManagerUnmounted
    /\ RsvpPageUnmounted
    /\ TaskViewUnmounted
    /\ InvitationManagerUnmounted

otherComponents == <<rsvpVars, pageVars, taskVars, inviteVars>>

\* bounds of the model
MaxSubmits == 1
MaxClock == 4

mockParticipants == <<"Alice", "Bob", "Charlie", "David">>

SplitMethods == {"equal", "percentage", "itemized", "exact_amounts"}

\* a row of splitDetails
Row(p, amount, percentage) ==
    [participantId |-> p, amount |-> amount, percentage |-> percentage]

generateMockExpenses(ps) ==
    << [id |-> 1, description |-> "Dinner at Restaurant",
        amount |-> FromInt(120), paidBy |-> ps[1], splitMethod |-> "equal",
        splitDetails |-> Map(LAMBDA p : Row(p, Undefined, Undefined), ps),
        approvalStatus |-> "approved", createdAt |-> 0, updatedAt |-> 0],
       [id |-> 2, description |-> "Groceries for BBQ",
        amount |-> FromInt(75), paidBy |-> ps[2], splitMethod |-> "percentage",
        splitDetails |-> << Row(ps[1], Undefined, Some(FromInt(40))),
                            Row(ps[2], Undefined, Some(FromInt(30))),
                            Row(ps[3], Undefined, Some(FromInt(30))) >>,
        approvalStatus |-> "pending", createdAt |-> 0, updatedAt |-> 0],
       [id |-> 3, description |-> "Movie Tickets",
        amount |-> FromInt(45), paidBy |-> ps[3], splitMethod |-> "equal",
        splitDetails |-> Map(LAMBDA p : Row(p, Undefined, Undefined),
                             SubSeq(ps, 1, 3)),
        approvalStatus |-> "rejected", createdAt |-> 0, updatedAt |-> 0] >>

(***************************************************************************)
(* The validation schema.  An issue names the field path it is attached to *)
(* (index and field are 0 and "" for a top-level path) and its message.    *)
(* The candidates the model draws are well typed, so no check aborts the   *)
(* parse and the superRefine callback always runs.                         *)
(***************************************************************************)
Issue(path, index, field, message) ==
    [path |-> path, index |-> index, field |-> field, message |-> message]

splitDetailSchema(row, i) ==
    (IF row.participantId = ""
        THEN {Issue("splitDetails", i, "participantId", "Participant is required.")}
        ELSE {})
    \cup
    (IF IsDefined(row.amount) /\ ~FGt(row.amount[1], Zero)
        THEN {Issue("splitDetails", i, "amount", "Amount must be positive.")}
        ELSE {})
    \cup
    (IF IsDefined(row.percentage) /\ FGt(Zero, row.percentage[1])
        THEN {Issue("splitDetails", i, "percentage",
                    "Number must be greater than or equal to 0")}
        ELSE {})
    \cup
    (IF IsDefined(row.percentage) /\ FGt(row.percentage[1], FromInt(100))
        THEN {Issue("splitDetails", i, "percentage",
                    "Percentage must be between 0 and 100.")}
        ELSE {})

\* splitDetails.reduce((sum, detail) => sum + (detail.percentage || 0), 0)
RECURSIVE SumPercentage(_, _)
SumPercentage(rows, sum) ==
    IF rows = <<>> THEN sum
    ELSE SumPercentage(Tail(rows), FAdd(sum, OrZero(Head(rows).percentage)))

\* splitDetails.reduce((sum, detail) => sum + (detail.amount || 0), 0)
RECURSIVE SumAmount(_, _)
SumAmount(rows, sum) ==
    IF rows = <<>> THEN sum
    ELSE SumAmount(Tail(rows), FAdd(sum, OrZero(Head(rows).amount)))

\* data.splitDetails?.reduce(...): undefined when splitDetails is
totalPercentage(data) ==
    IF IsDefined(data.splitDetails)
    THEN Some(SumPercentage(data.splitDetails[1], Zero)) ELSE Undefined

totalAmount(data) ==
    IF IsDefined(data.splitDetails)
    THEN Some(SumAmount(data.splitDetails[1], Zero)) ELSE Undefined

baseSchema(data) ==
    (IF Len(data.description) < 3
        THEN {Issue("description", 0, "", "Description is too short.")} ELSE {})
    \cup
    (IF Len(data.description) > 200
        THEN {Issue("description", 0, "", "Description is too long.")} ELSE {})
    \cup
    (IF ~FGt(data.amount, Zero)
        THEN {Issue("amount", 0, "", "Amount must be a positive number.")} ELSE {})
    \cup
    (IF data.paidBy = ""
        THEN {Issue("paidBy", 0, "", "Payer is required.")} ELSE {})
    \cup
    UNION {splitDetailSchema(OrEmpty(data.splitDetails)[i], i) :
             i \in 1..Len(OrEmpty(data.splitDetails))}

PercentageTotalIssue ==
    Issue("splitDetails", 0, "", "Total percentage must be 100%.")
AmountTotalIssue ==
    Issue("splitDetails", 0, "",
          "Total of split amounts must equal the expense amount.")
DetailsRequiredIssue ==
    Issue("splitDetails", 0, "", "Split details are required.")

\* a faulty check: a total within 0.02 of 100 passes
PercentageTotalNear(total) ==
    /\ IsDefined(total)
    /\ ~FGt(FAbs(FSub(OrZero(total), FromInt(100))), Dec(2, 100))

\* a faulty check: a total within 0.02 of the amount passes
AmountTotalNear(total, amount) ==
    /\ IsDefined(total)
    /\ ~FGt(FAbs(FSub(OrZero(total), amount)), Dec(2, 100))

\* totalPercentage !== 100, negated
PercentageTotalOk(total) == total = Some(FromInt(100))

\* totalAmount !== data.amount, negated
AmountTotalOk(total, amount) == total = Some(amount)

\* a faulty test: an empty list of split details passes
DetailsMissingWhenUndefined(data) == ~IsDefined(data.splitDetails)

\* !data.splitDetails || data.splitDetails.length === 0
DetailsMissing(data) ==
    ~IsDefined(data.splitDetails) \/ Len(OrEmpty(data.splitDetails)) = 0

superRefine(data) ==
    (IF data.splitMethod = "percentage"
        THEN (IF ~PercentageTotalOk(totalPercentage(data))
                 THEN {PercentageTotalIssue} ELSE {})
     ELSE IF data.splitMethod \in {"itemized", "exact_amounts"}
        THEN (IF ~AmountTotalOk(totalAmount(data), data.amount)
                 THEN {AmountTotalIssue} ELSE {})
     ELSE {})
    \cup
    (IF data.splitMethod \in {"percentage", "itemized", "exact_amounts"}
        /\ DetailsMissing(data)
        THEN {DetailsRequiredIssue} ELSE {})

\* a faulty schema: the cross-field rules are skipped when a field fails
expenseFormSchemaFieldsFirst(data) ==
    IF baseSchema(data) # {} THEN baseSchema(data) ELSE superRefine(data)

\* the issues expenseFormSchema reports for data; none means data is accepted
expenseFormSchema(data) == baseSchema(data) \cup superRefine(data)

(***************************************************************************)
(* The balance list.  balances is the object the code builds: a list of    *)
(* [participantId, netAmount] entries in the order the keys were first     *)
(* written, which is the order Object.entries returns them in.             *)
(***************************************************************************)
HasKey(balances, p) == \E i \in 1..Len(balances) : balances[i].participantId = p

\* balances[p] = v
SetBalance(balances, p, v) ==
    IF HasKey(balances, p)
    THEN [i \in 1..Len(balances) |->
            IF balances[i].participantId = p
            THEN [balances[i] EXCEPT !.netAmount = v] ELSE balances[i]]
    ELSE Append(balances, [participantId |-> p, netAmount |-> v])

\* (balances[p] || 0)
BalanceOrZero(balances, p) ==
    IF HasKey(balances, p)
    THEN (CHOOSE b \in SeqToSet(balances) : b.participantId = p).netAmount
    ELSE Zero

\* participants.forEach(p => balances[p] = 0)
RECURSIVE ZeroBalances(_, _)
ZeroBalances(ps, balances) ==
    IF ps = <<>> THEN balances
    ELSE ZeroBalances(Tail(ps), SetBalance(balances, Head(ps), Zero))

\* a faulty share: an equal split divides by the size of the roster
OwedShareByRoster(expense, detail) ==
    IF expense.splitMethod = "equal"
        THEN FDiv(expense.amount, Len(participants))
    ELSE IF expense.splitMethod = "percentage"
        THEN FMul(expense.amount, FDiv(OrZero(detail.percentage), 100))
    ELSE OrZero(detail.amount)

\* a faulty share: a percentage is taken as a fraction of 1
OwedShareFraction(expense, detail) ==
    IF expense.splitMethod = "equal"
        THEN FDiv(expense.amount, Len(expense.splitDetails))
    ELSE IF expense.splitMethod = "percentage"
        THEN FMul(expense.amount, OrZero(detail.percentage))
    ELSE OrZero(detail.amount)

\* a faulty share: an itemized share is derived again from the amount
OwedShareRederived(expense, detail) ==
    IF expense.splitMethod = "percentage"
        THEN FMul(expense.amount, FDiv(OrZero(detail.percentage), 100))
    ELSE FDiv(expense.amount, Len(expense.splitDetails))

\* what one split row owes of an expense
OwedShare(expense, detail) ==
    IF expense.splitMethod = "equal"
        THEN FDiv(expense.amount, Len(expense.splitDetails))
    ELSE IF expense.splitMethod = "percentage"
        THEN FMul(expense.amount, FDiv(OrZero(detail.percentage), 100))
    ELSE OrZero(detail.amount)

\* expense.splitDetails.forEach(detail => balances[id] = (balances[id] || 0) - share)
RECURSIVE DebitSplit(_, _, _)
DebitSplit(expense, details, balances) ==
    IF details = <<>> THEN balances
    ELSE LET d == Head(details)
         IN  DebitSplit(expense, Tail(details),
                 SetBalance(balances, d.participantId,
                     FSub(BalanceOrZero(balances, d.participantId),
                          OwedShare(expense, d))))

\* a faulty aggregation: the payer is not debited for the payer's own row
ApplyExpenseOthersOnly(expense, balances) ==
    DebitSplit(expense,
        SelectSeq(expense.splitDetails,
                  LAMBDA d : d.participantId # expense.paidBy),
        SetBalance(balances, expense.paidBy,
            FAdd(BalanceOrZero(balances, expense.paidBy), expense.amount)))

\* the body of the forEach over the approved expenses
ApplyExpense(expense, balances) ==
    DebitSplit(expense, expense.splitDetails,
        SetBalance(balances, expense.paidBy,
            FAdd(BalanceOrZero(balances, expense.paidBy), expense.amount)))

\* a faulty filter: every expense counts
ApprovedOnlyAll(exps) == exps

\* expenses.filter(exp => exp.approvalStatus === 'approved')
ApprovedOnly(exps) == SelectSeq(exps, LAMBDA e : e.approvalStatus = "approved")

RECURSIVE FoldExpenses(_, _)
FoldExpenses(exps, balances) ==
    IF exps = <<>> THEN balances
    ELSE FoldExpenses(Tail(exps), ApplyExpense(Head(exps), balances))

\* the balances object before the final filter
RunningBalances(ps, exps) ==
    FoldExpenses(ApprovedOnly(exps), ZeroBalances(ps, <<>>))

\* a faulty filter: a balance of exactly 0.005 is kept
ReportedFromThreshold(b) == ~FGt(Dec(5, 1000), FAbs(b.netAmount))

\* .filter(b => Math.abs(b.netAmount) > 0.005)
Reported(b) == FGt(FAbs(b.netAmount), Dec(5, 1000))

\* a faulty aggregation: the result depends on the state of the form
CalculatedBalancesByForm(ps, exps) ==
    IF formErrors = {} THEN SelectSeq(RunningBalances(ps, exps), Reported)
    ELSE <<>>

CalculatedBalances(ps, exps) ==
    SelectSeq(RunningBalances(ps, exps), Reported)

(***************************************************************************)
(* The handlers.                                                           *)
(***************************************************************************)
\* a faulty equal split: without rows given, no row is stored
finalSplitDetailsNoFallback(data, ps) ==
    IF data.splitMethod = "equal"
    THEN Map(LAMBDA detail :
               [detail EXCEPT !.amount =
                   Some(FDiv(data.amount, Len(OrEmpty(data.splitDetails))))],
             OrEmpty(data.splitDetails))
    ELSE OrEmpty(data.splitDetails)

\* a faulty equal split: the amount is always divided by the roster size
finalSplitDetailsByRoster(data, ps) ==
    IF data.splitMethod = "equal"
    THEN IF Len(ps) = 0 THEN <<>>
         ELSE Map(LAMBDA detail :
                    [detail EXCEPT !.amount = Some(FDiv(data.amount, Len(ps)))],
                  IF Len(OrEmpty(data.splitDetails)) > 0
                  THEN OrEmpty(data.splitDetails)
                  ELSE Map(LAMBDA p : Row(p, Undefined, Undefined), ps))
    ELSE OrEmpty(data.splitDetails)

\* the split details handleExpenseSubmit stores for data
finalSplitDetails(data, ps) ==
    LET given == OrEmpty(data.splitDetails)
    IN  IF data.splitMethod = "equal"
        THEN LET numParticipantsInSplit ==
                     IF Len(given) > 0 THEN Len(given) ELSE Len(ps)
                 rows == IF Len(given) > 0 THEN given
                         ELSE Map(LAMBDA p : Row(p, Undefined, Undefined), ps)
             IN  \* with no row and no participant the quotient is
                 \* Infinity, and no row is there to receive it
                 IF numParticipantsInSplit = 0 THEN <<>>
                 ELSE LET amountPerPerson ==
                              FDiv(data.amount, numParticipantsInSplit)
                      IN  Map(LAMBDA detail :
                                [detail EXCEPT !.amount = Some(amountPerPerson)],
                              rows)
        ELSE given

\* a faulty submit: the new expense is stored as approved
newExpenseApproved(data, ps, id, time) ==
    [id |-> id, description |-> data.description, amount |-> data.amount,
     paidBy |-> data.paidBy, splitMethod |-> data.splitMethod,
     splitDetails |-> finalSplitDetails(data, ps),
     approvalStatus |-> "approved", createdAt |-> time, updatedAt |-> time]

newExpense(data, ps, id, time) ==
    [id |-> id, description |-> data.description, amount |-> data.amount,
     paidBy |-> data.paidBy, splitMethod |-> data.splitMethod,
     splitDetails |-> finalSplitDetails(data, ps),
     approvalStatus |-> "pending", createdAt |-> time, updatedAt |-> time]

\* uuidv4(): an identifier no expense of the list has
FreshId(exps) == Len(exps) + 1

\* useState(initialExpenses || generateMockExpenses(eventId, participants))
InitialState(initial, ps) ==
    IF IsDefined(initial) THEN initial[1] ELSE generateMockExpenses(ps)

\* the number of expenses added since the component was mounted
Submitted == Len(expenses) - Len(InitialState(initialExpenses, participants))

\* a faulty submit: the expense is stored whatever the resolver reports
SubmitUnchecked(data) ==
    /\ now < MaxClock
    /\ Len(expenses) - Len(InitialState(initialExpenses, participants)) < MaxSubmits
    /\ formErrors' = expenseFormSchema(data)
    /\ expenses' = <<newExpense(data, participants, Len(expenses) + 1, now + 1)>>
                      \o expenses
    /\ now' = now + 1
    /\ calculatedBalances' = CalculatedBalances(participants, expenses')
    /\ UNCHANGED <<participants, initialExpenses, candidate>>

\* form.handleSubmit(handleExpenseSubmit), the form holding data: the
\* resolver validates, and only valid data reaches the handler
Submit(data) ==
    /\ now < MaxClock
    /\ Submitted < MaxSubmits
    /\ formErrors' = expenseFormSchema(data)
    /\ IF formErrors' = {}
       THEN /\ expenses' = <<newExpense(data, participants,
                                        FreshId(expenses), now + 1)>>
                           \o expenses
            /\ now' = now + 1
       ELSE UNCHANGED <<expenses, now>>
    /\ calculatedBalances' = CalculatedBalances(participants, expenses')
    /\ UNCHANGED <<participants, initialExpenses, candidate>>

\* a faulty handler: the balances are not computed again
handleExpenseApprovalStale(expenseId, newStatus) ==
    /\ now < MaxClock
    /\ \E i \in 1..Len(expenses) : expenses[i].id = expenseId
    /\ expenses' = [i \in 1..Len(expenses) |->
                      IF expenses[i].id = expenseId
                      THEN [expenses[i] EXCEPT !.approvalStatus = newStatus,
                                               !.updatedAt = now + 1]
                      ELSE expenses[i]]
    /\ now' = now + 1
    /\ UNCHANGED <<participants, initialExpenses, formErrors, candidate,
                   calculatedBalances>>

\* a faulty handler: a rejected expense is dropped from the list
handleExpenseApprovalDropRejected(expenseId, newStatus) ==
    /\ now < MaxClock
    /\ \E i \in 1..Len(expenses) : expenses[i].id = expenseId
    /\ expenses' = SelectSeq(
                      [i \in 1..Len(expenses) |->
                          IF expenses[i].id = expenseId
                          THEN [expenses[i] EXCEPT !.approvalStatus = newStatus,
                                                   !.updatedAt = now + 1]
                          ELSE expenses[i]],
                      LAMBDA e : e.approvalStatus # "rejected" \/ e.id # expenseId)
    /\ now' = now + 1
    /\ calculatedBalances' = CalculatedBalances(participants, expenses')
    /\ UNCHANGED <<participants, initialExpenses, formErrors, candidate>>

\* a faulty handler: every expense of the list gets the new updatedAt
handleExpenseApprovalTouchAll(expenseId, newStatus) ==
    /\ now < MaxClock
    /\ expenses' = [i \in 1..Len(expenses) |->
                      IF expenses[i].id = expenseId
                      THEN [expenses[i] EXCEPT !.approvalStatus = newStatus,
                                               !.updatedAt = now + 1]
                      ELSE [expenses[i] EXCEPT !.updatedAt = now + 1]]
    /\ now' = now + 1
    /\ calculatedBalances' = CalculatedBalances(participants, expenses')
    /\ UNCHANGED <<participants, initialExpenses, formErrors, candidate>>

\* expenses.find(e => e.id === expenseId)
Found(expenseId) == \E i \in 1..Len(expenses) : expenses[i].id = expenseId

handleExpenseApproval(expenseId, newStatus) ==
    IF ~Found(expenseId)
    THEN \* if (!expense) return;
         UNCHANGED vars
    ELSE /\ now < MaxClock
         /\ expenses' = [i \in 1..Len(expenses) |->
                           IF expenses[i].id = expenseId
                           THEN [expenses[i] EXCEPT !.approvalStatus = newStatus,
                                                    !.updatedAt = now + 1]
                           ELSE expenses[i]]
         /\ now' = now + 1
         /\ calculatedBalances' = CalculatedBalances(participants, expenses')
         /\ UNCHANGED <<participants, initialExpenses, formErrors, candidate>>

\* a faulty log: the buttons are rendered for every row
ActionsShownAlways(exp) == exp.approvalStatus \in {"pending", "approved", "rejected"}

\* the Approve and Reject buttons are rendered for pending rows only
ActionsShown(exp) == exp.approvalStatus = "pending"

ClickApprove(i) ==
    /\ i \in 1..Len(expenses)
    /\ ActionsShown(expenses[i])
    /\ handleExpenseApproval(expenses[i].id, "approved")

ClickReject(i) ==
    /\ i \in 1..Len(expenses)
    /\ ActionsShown(expenses[i])
    /\ handleExpenseApproval(expenses[i].id, "rejected")

(***************************************************************************)
(* Inputs.                                                                 *)
(***************************************************************************)
Data(description, amount, paidBy, splitMethod, splitDetails) ==
    [description |-> description, amount |-> amount, paidBy |-> paidBy,
     splitMethod |-> splitMethod, splitDetails |-> splitDetails]

\* the form's defaultValues for a roster ps
DefaultValues(ps) ==
    Data("", Zero, IF Len(ps) > 0 THEN ps[1] ELSE "", "equal", Some(<<>>))

\* the rows the form holds for the equal method: one per participant
EqualRows(ps) == Map(LAMBDA p : Row(p, Undefined, Undefined), ps)

\* rows for the first participants of ps, with percentages in hundredths
\* of a percent (-1: the row has no percentage)
PercentRows(ps, hundredths) ==
    [i \in 1..Len(hundredths) |->
        Row(ps[i], Undefined,
            IF hundredths[i] = -1 THEN Undefined
            ELSE Some(Dec(hundredths[i], 100)))]

\* rows for the first participants of ps, with amounts in cents
\* (-1: the row has no amount)
AmountRows(ps, cents) ==
    [i \in 1..Len(cents) |->
        Row(ps[i],
            IF cents[i] = -1 THEN Undefined ELSE Some(Dec(cents[i], 100)),
            Undefined)]

\* rows for the participants of ps, with amounts in thousandths
MilliRows(ps, thousandths) ==
    [i \in 1..Len(thousandths) |->
        Row(ps[i], Some(Dec(thousandths[i], 1000)), Undefined)]

Rosters == {<<"Alice", "Bob", "Charlie">>, mockParticipants}

\* what a user of the rendered form submits in the main specification:
\* every identifier comes from a Select whose options are the participants
FormInputs(ps) ==
    { Data("Team Dinner", FromInt(120), ps[1], "equal", Some(EqualRows(ps))),
      Data("Snacks", Dec(90, 100), ps[2], "equal",
           Some(EqualRows(SubSeq(ps, 1, 3)))),
      Data("Parking", FromInt(45), ps[1], "equal", Some(<<>>)),
      Data("Groceries", FromInt(75), ps[2], "percentage",
           Some(PercentRows(ps, <<4000, 3000, 3000>>))),
      Data("Taxi", FromInt(120), ps[3], "exact_amounts",
           Some(AmountRows(ps, <<7500, 4500>>))),
      Data("Groceries", FromInt(75), ps[2], "percentage",
           Some(PercentRows(ps, <<3333, 3333, 3333>>))),
      Data("Taxi", FromInt(120), ps[3], "itemized",
           Some(AmountRows(ps, <<7500>>))),
      Data("ab", Zero, ps[1], "percentage", Undefined) }

\* the split details tried in the single-submit specification
SplitInputs(ps) ==
    { Undefined, Some(<<>>), Some(EqualRows(ps)),
      Some(PercentRows(ps, <<4000, 3000, 3000>>)),
      Some(PercentRows(ps, <<3333, 3333, 3333>>)),
      Some(PercentRows(ps, <<3333, 3333, 3334>>)),
      Some(PercentRows(ps, <<3071, 3334, 3595>>)),
      Some(PercentRows(ps, <<6000, -1, 4000>>)),
      Some(PercentRows(ps, <<12000, -2000>>)),
      Some(AmountRows(ps, <<7500, 4500>>)),
      Some(AmountRows(ps, <<7500>>)),
      Some(AmountRows(ps, <<12000, -1>>)),
      Some(AmountRows(ps, <<12000, 0>>)),
      Some(AmountRows(ps, <<45, 45>>)),
      Some(AmountRows(ps, <<20, 70>>)),
      Some(MilliRows(<<ps[2]>>, <<3>>)),
      Some(MilliRows(<<ps[2]>>, <<5>>)),
      Some(MilliRows(<<ps[2]>>, <<10>>)) }

AmountInputs ==
    {Zero, FromInt(-5), Dec(3, 1000), Dec(5, 1000), Dec(10, 1000),
     Dec(90, 100), FromInt(75), FromInt(120)}

SubmitInputs(ps) ==
    { Data(d, a, p, m, s) :
        d \in {"Team Dinner"}, a \in AmountInputs, p \in {ps[1], ps[2]},
        m \in SplitMethods, s \in SplitInputs(ps) }
    \cup
    { Data("ab", FromInt(120), ps[1], "equal", Some(EqualRows(ps))),
      Data("Team Dinner", FromInt(120), "", "equal", Some(EqualRows(ps))),
      Data("Team Dinner", FromInt(120), ps[1], "equal",
           Some(<<Row("", Undefined, Undefined)>>)) }

(***************************************************************************)
(* Spec: the component as rendered with its default expenses.  The user    *)
(* submits the form and clicks the buttons of the expense log.             *)
(***************************************************************************)
Init ==
    /\ OnlyExpenseTracker
    /\ participants \in Rosters
    /\ initialExpenses = Undefined
    /\ expenses = InitialState(initialExpenses, participants)
    /\ formErrors = {}
    /\ now = 0
    /\ candidate = DefaultValues(participants)
    /\ calculatedBalances = CalculatedBalances(participants, expenses)

SubmitForm ==
    /\ \E data \in FormInputs(participants) : Submit(data)
    /\ UNCHANGED otherComponents

Approve ==
    /\ \E i \in 1..Len(expenses) : ClickApprove(i)
    /\ UNCHANGED otherComponents

Reject ==
    /\ \E i \in 1..Len(expenses) : ClickReject(i)
    /\ UNCHANGED otherComponents

Next == SubmitForm \/ Approve \/ Reject

Spec == Init /\ [][Next]_vars

(***************************************************************************)
(* SpecSubmit: one form submission on an empty expense list, for every     *)
(* candidate of SubmitInputs.                                              *)
(***************************************************************************)
InitSubmit ==
    /\ OnlyExpenseTracker
    /\ participants \in Rosters
    /\ initialExpenses = Some(<<>>)
    /\ expenses = InitialState(initialExpenses, participants)
    /\ formErrors = {}
    /\ now = 0
    /\ candidate \in SubmitInputs(participants)
    /\ calculatedBalances = CalculatedBalances(participants, expenses)

SubmitCandidate ==
    /\ Submit(candidate)
    /\ UNCHANGED otherComponents

NextSubmit == SubmitCandidate \/ Approve \/ Reject

SpecSubmit == InitSubmit /\ [][NextSubmit]_vars

(***************************************************************************)
(* SpecHandlers: the schema and the two handlers as functions, called with *)
(* any argument: form data whose identifiers need not come from the        *)
(* Selects, and an approval or rejection of any expense of the list.       *)
(***************************************************************************)
Outsider == "Mallory"

HandlerInputs(ps) ==
    { Data("Team Dinner", FromInt(120), ps[1], "equal", Some(EqualRows(ps))),
      Data("Taxi", FromInt(120), Outsider, "equal", Some(EqualRows(ps))),
      Data("Taxi", FromInt(120), ps[1], "exact_amounts",
           Some(<<Row(Outsider, Some(FromInt(120)), Undefined)>>)),
      Data("Taxi", FromInt(120), ps[1], "itemized",
           Some(AmountRows(ps, <<7500>>))) }

InitHandlers ==
    /\ OnlyExpenseTracker
    /\ participants \in Rosters
    /\ initialExpenses \in {Some(<<>>),
                           Some(SubSeq(generateMockExpenses(participants), 1, 1))}
    /\ expenses = InitialState(initialExpenses, participants)
    /\ formErrors = {}
    /\ now = 0
    /\ candidate = DefaultValues(participants)
    /\ calculatedBalances = CalculatedBalances(participants, expenses)

SubmitData ==
    /\ \E data \in HandlerInputs(participants) : Submit(data)
    /\ UNCHANGED otherComponents

\* an id no expense has: FreshId gives 1, 2, ...
UnknownId == 0

CallApproval ==
    /\ \E expenseId \in {expenses[i].id : i \in 1..Len(expenses)} \cup {UnknownId},
          newStatus \in {"approved", "rejected"} :
           handleExpenseApproval(expenseId, newStatus)
    /\ UNCHANGED otherComponents

NextHandlers == SubmitData \/ CallApproval

SpecHandlers == InitHandlers /\ [][NextHandlers]_vars

(***************************************************************************)
(* Properties.                                                             *)
(***************************************************************************)
\* the expenses whose status is neither pending nor rejected
WithoutPendingAndRejected(exps) ==
    SelectSeq(exps, LAMBDA e : e.approvalStatus \notin {"pending", "rejected"})

NoneApproved(exps) ==
    \A i \in 1..Len(exps) : exps[i].approvalStatus # "approved"

OtherFieldsValid(data) == baseSchema(data) = {}

PercentagesSumTo100(data) ==
    SumPercentage(OrEmpty(data.splitDetails), Zero) = FromInt(100)

AmountsSumToAmount(data) ==
    SumAmount(OrEmpty(data.splitDetails), Zero) = data.amount

C3_AmountTotalMustMatch ==
    [][(candidate.splitMethod \in {"itemized", "exact_amounts"}
          /\ ~AmountsSumToAmount(candidate)) =>
          AmountTotalIssue \in formErrors' /\ expenses' = expenses]_vars

\* an exact_amounts candidate, valid but for its total, has been rejected
C3_Witness ==
    /\ candidate.splitMethod = "exact_amounts"
    /\ OtherFieldsValid(candidate)
    /\ Len(OrEmpty(candidate.splitDetails)) = 2
    /\ ~AmountsSumToAmount(candidate)
    /\ formErrors = {AmountTotalIssue}
    /\ expenses = <<>>

ExpenseById(exps, id) == CHOOSE e \in SeqToSet(exps) : e.id = id

\* C5: an approval or rejection aimed at an expense that is no longer
\* pending changes nothing: across every step an expense that is approved
\* or rejected keeps its status and its updatedAt, and stays in a list of
\* the same expenses.  (SpecHandlers; the handler does not behave so)
C5_SettledExpenseUntouched ==
    [][\A i \in 1..Len(expenses) :
          expenses[i].approvalStatus # "pending" =>
             /\ \E j \in 1..Len(expenses') : expenses'[j].id = expenses[i].id
             /\ ExpenseById(expenses', expenses[i].id) = expenses[i]]_vars

\* C6: every accepted submit puts in front of the list one expense whose
\* status is pending, whatever its amount, payer and split method, and
\* leaves the expenses already there as they were.  (SpecSubmit)
C6_SubmittedIsPending ==
    [][Len(expenses') > Len(expenses) =>
          /\ Len(expenses') = Len(expenses) + 1
          /\ Tail(expenses') = expenses
          /\ Head(expenses').approvalStatus = "pending"
          /\ Head(expenses').amount = candidate.amount
          /\ Head(expenses').paidBy = candidate.paidBy
          /\ Head(expenses').splitMethod = candidate.splitMethod]_vars

\* a percentage expense has just been submitted and is listed as pending
C6_Witness ==
    /\ Len(expenses) = 1
    /\ expenses[1].createdAt = now
    /\ now > 0
    /\ expenses[1].splitMethod = "percentage"
    /\ expenses[1].approvalStatus = "pending"

\* the participants the split rows of an expense name
SplitParticipants(rows) == {rows[i].participantId : i \in 1..Len(rows)}

\* C7: no expense reaches the list whose payer, or the participant of one
\* of its split rows, is not in the roster.  (SpecHandlers; neither the
\* schema nor the handler checks it)
C7_OnlyRosterMembersStored ==
    \A i \in 1..Len(expenses) :
        expenses[i].createdAt > 0 =>
           /\ expenses[i].paidBy \in SeqToSet(participants)
           /\ SplitParticipants(expenses[i].splitDetails)
                 \subseteq SeqToSet(participants)

\* an expense stored by a submit of the equal method with split rows given
EqualSubmitStored(e) ==
    /\ e.createdAt > 0
    /\ e.splitMethod = "equal"
    /\ Len(OrEmpty(candidate.splitDetails)) >= 1

AllSharesAre(rows, share) ==
    \A k \in 1..Len(rows) : rows[k].amount = Some(share)

\* a number times 2^k, k an integer: exact
Scale(a, k) == IF IsZero(a) THEN a ELSE [a EXCEPT !.e = a.e + k]

\* |sum - amount| <= n * 2^-52 * amount
WithinRounding(sum, amount, n) ==
    ~FGt(FAbs(FSub(sum, amount)), Scale(FMul(amount, FromInt(n)), -52))

\* C8 as stated: of an accepted equal submit with n >= 1 rows, every stored
\* row holds amount / n, and the n stored shares add up to the amount.
\* (SpecSubmit; the sum is not always the amount)
C8_SharesSumToAmount ==
    \A i \in 1..Len(expenses) :
        EqualSubmitStored(expenses[i]) =>
           /\ Len(expenses[i].splitDetails) = Len(candidate.splitDetails[1])
           /\ AllSharesAre(expenses[i].splitDetails,
                  FDiv(expenses[i].amount, Len(candidate.splitDetails[1])))
           /\ SumAmount(expenses[i].splitDetails, Zero) = expenses[i].amount

\* C8, amended: of an accepted equal submit with n >= 1 rows, every stored
\* row holds the same share, the number nearest amount / n, and the n
\* stored shares add up to the amount to within rounding: the sum differs
\* from the amount by at most n * 2^-52 times the amount.  (SpecSubmit)
C8_SharesIdenticalSumWithinRounding ==
    \A i \in 1..Len(expenses) :
        EqualSubmitStored(expenses[i]) =>
           /\ Len(expenses[i].splitDetails) = Len(candidate.splitDetails[1])
           /\ AllSharesAre(expenses[i].splitDetails,
                  FDiv(expenses[i].amount, Len(candidate.splitDetails[1])))
           /\ WithinRounding(SumAmount(expenses[i].splitDetails, Zero),
                  expenses[i].amount, Len(candidate.splitDetails[1]))

\* an equal expense of three rows is stored whose shares do not add up to
\* its amount
C8_Witness ==
    /\ Len(expenses) = 1
    /\ EqualSubmitStored(expenses[1])
    /\ Len(expenses[1].splitDetails) = 3
    /\ SumAmount(expenses[1].splitDetails, Zero) # expenses[1].amount

\* the approved expenses are one expense, of the given method, with at
\* least one split row and no participant in two rows
OneApproved(method) ==
    /\ Len(WithoutPendingAndRejected(expenses)) = 1
    /\ WithoutPendingAndRejected(expenses)[1].splitMethod = method
    /\ Len(WithoutPendingAndRejected(expenses)[1].splitDetails) >= 1
    /\ Cardinality(SplitParticipants(
           WithoutPendingAndRejected(expenses)[1].splitDetails))
          = Len(WithoutPendingAndRejected(expenses)[1].splitDetails)

TheApproved == WithoutPendingAndRejected(expenses)[1]

Everyone(e) ==
    SeqToSet(participants) \cup {e.paidBy} \cup SplitParticipants(e.splitDetails)

\* the balance listed for p, 0 when none is
Listed(p) == BalanceOrZero(calculatedBalances, p)

\* a balance as the list shows it: 0 when it is too small to be listed
AsListed(x) == IF FGt(FAbs(x), Dec(5, 1000)) THEN x ELSE Zero

Credit(e, p) == IF p = e.paidBy THEN e.amount ELSE Zero

RowOf(e, p) == CHOOSE d \in SeqToSet(e.splitDetails) : d.participantId = p

EqualDebit(e, p) ==
    IF p \in SplitParticipants(e.splitDetails)
    THEN FDiv(e.amount, Len(e.splitDetails)) ELSE Zero

Balance(id, x) == [participantId |-> id, netAmount |-> x]

\* C9: when the approved expenses are one equal expense of n >= 1 rows,
\* each person's balance is the amount, if that person paid, less
\* amount / n, if that person has a row: the payer in the split nets
\* amount - amount / n.  With Alice, Bob and Charlie and 120 paid by Alice
\* and split among the three, the balances are Alice +80, Bob -40 and
\* Charlie -40.  (SpecSubmit)
C9_EqualAggregation ==
    /\ OneApproved("equal") =>
          \A p \in Everyone(TheApproved) :
              Listed(p) = AsListed(FSub(Credit(TheApproved, p),
                                        EqualDebit(TheApproved, p)))
    /\ ( /\ OneApproved("equal")
         /\ participants = <<"Alice", "Bob", "Charlie">>
         /\ TheApproved.amount = FromInt(120)
         /\ TheApproved.paidBy = "Alice"
         /\ SplitParticipants(TheApproved.splitDetails) = {"Alice", "Bob", "Charlie"} )
       => calculatedBalances = << Balance("Alice", FromInt(80)),
                                  Balance("Bob", FromInt(-40)),
                                  Balance("Charlie", FromInt(-40)) >>

\* the expense of 120 paid by Alice and split equally among Alice, Bob and
\* Charlie has been submitted and approved, and three balances are listed
C9_Witness ==
    /\ OneApproved("equal")
    /\ participants = <<"Alice", "Bob", "Charlie">>
    /\ TheApproved.amount = FromInt(120)
    /\ TheApproved.paidBy = "Alice"
    /\ SplitParticipants(TheApproved.splitDetails) = {"Alice", "Bob", "Charlie"}
    /\ TheApproved.createdAt > 0
    /\ TheApproved.updatedAt > TheApproved.createdAt
    /\ Len(calculatedBalances) = 3

PercentageDebit(e, p) ==
    IF p \in SplitParticipants(e.splitDetails)
    THEN FMul(e.amount, FDiv(OrZero(RowOf(e, p).percentage), 100)) ELSE Zero

StoredDebit(e, p) ==
    IF p \in SplitParticipants(e.splitDetails)
    THEN OrZero(RowOf(e, p).amount) ELSE Zero

\* C11: when the approved expenses are one itemized or exact_amounts
\* expense, each person's balance is the amount, if that person paid, less
\* the amount stored in that person's row, taken as it is.  (SpecSubmit)
C11_ItemizedAggregation ==
    \A method \in {"itemized", "exact_amounts"} :
        OneApproved(method) =>
           \A p \in Everyone(TheApproved) :
               Listed(p) = AsListed(FSub(Credit(TheApproved, p),
                                         StoredDebit(TheApproved, p)))

\* an expense of 120 split as 75 and 45 has been submitted and approved,
\* and the participant of the second row is listed with -45
C11_Witness ==
    /\ \E method \in {"itemized", "exact_amounts"} : OneApproved(method)
    /\ TheApproved.amount = FromInt(120)
    /\ TheApproved.splitDetails = AmountRows(participants, <<7500, 4500>>)
    /\ TheApproved.paidBy = participants[1]
    /\ TheApproved.updatedAt > TheApproved.createdAt
    /\ Listed(participants[2]) = FromInt(-45)
    /\ Listed(participants[1]) = FromInt(45)

ListedIds == {calculatedBalances[i].participantId : i \in 1..Len(calculatedBalances)}

\* the balances that are left out, and some that are listed
TooSmall == {Zero, Dec(3, 1000), FNeg(Dec(3, 1000)),
             Dec(5, 1000), FNeg(Dec(5, 1000))}
LargeEnough == {Dec(10, 1000), FNeg(Dec(10, 1000))}

FilterAgrees(running) ==
    \A i \in 1..Len(running) :
        /\ running[i].participantId \in ListedIds
              <=> FGt(FAbs(running[i].netAmount), Dec(5, 1000))
        /\ running[i].participantId \in ListedIds
              => Listed(running[i].participantId) = running[i].netAmount
        /\ running[i].netAmount \in TooSmall
              => running[i].participantId \notin ListedIds
        /\ running[i].netAmount \in LargeEnough
              => running[i].participantId \in ListedIds

\* C12: a participant is in the list of balances if and only if the
\* absolute value of the running balance is greater than 0.005, and is
\* then listed with that balance: 0, 0.003 and 0.005 are left out and
\* 0.01 is listed, whatever the sign.  (SpecSubmit)
C12_EpsilonFilter ==
    /\ FilterAgrees(RunningBalances(participants, expenses))
    /\ ListedIds \subseteq
          {b.participantId : b \in SeqToSet(RunningBalances(participants, expenses))}

\* an approved expense of 0.005 leaves its payer at exactly 0.005 and the
\* participant of its row at -0.005, and neither is listed
C12_Witness ==
    /\ Len(WithoutPendingAndRejected(expenses)) = 1
    /\ BalanceOrZero(RunningBalances(participants, expenses), participants[1])
          = Dec(5, 1000)
    /\ BalanceOrZero(RunningBalances(participants, expenses), participants[2])
          = FNeg(Dec(5, 1000))
    /\ calculatedBalances = <<>>

NoSplitDetails(data) ==
    data.splitDetails = Undefined \/ data.splitDetails = Some(<<>>)

\* C13: a percentage, itemized or exact_amounts candidate whose split
\* details are missing or empty is rejected with the split-details issue
\* and nothing is stored; an equal candidate without split details whose
\* fields are valid is accepted.  (SpecSubmit)
C13_SplitDetailsRequired ==
    [][NoSplitDetails(candidate) =>
          IF candidate.splitMethod \in {"percentage", "itemized", "exact_amounts"}
          THEN DetailsRequiredIssue \in formErrors' /\ expenses' = expenses
          ELSE OtherFieldsValid(candidate) =>
                  formErrors' = {} /\ Len(expenses') >= 1]_vars

\* an itemized candidate with an empty list of split details, its other
\* fields valid, has been rejected with the split-details issue
C13_Witness ==
    /\ candidate.splitMethod = "itemized"
    /\ candidate.splitDetails = Some(<<>>)
    /\ OtherFieldsValid(candidate)
    /\ DetailsRequiredIssue \in formErrors
    /\ expenses = <<>>

AmountIssue == Issue("amount", 0, "", "Amount must be a positive number.")

RowIssues(data) ==
    UNION {splitDetailSchema(OrEmpty(data.splitDetails)[i], i) :
             i \in 1..Len(OrEmpty(data.splitDetails))}

ViolatesSomeRule(data) ==
    \/ Len(data.description) < 3
    \/ Len(data.description) > 200
    \/ ~FGt(data.amount, Zero)
    \/ data.paidBy = ""
    \/ RowIssues(data) # {}
    \/ data.splitMethod = "percentage" /\ ~PercentagesSumTo100(data)
    \/ data.splitMethod \in {"itemized", "exact_amounts"}
          /\ ~AmountsSumToAmount(data)
    \/ data.splitMethod \in {"percentage", "itemized", "exact_amounts"}
          /\ NoSplitDetails(data)

\* the split details of e reconcile with its method
Reconciles(e) ==
    /\ FGt(e.amount, Zero)
    /\ e.splitMethod = "percentage" =>
          SumPercentage(e.splitDetails, Zero) = FromInt(100)
    /\ e.splitMethod \in {"itemized", "exact_amounts"} =>
          SumAmount(e.splitDetails, Zero) = e.amount
    /\ e.splitMethod \in {"percentage", "itemized", "exact_amounts"} =>
          Len(e.splitDetails) >= 1

\* C15: a submit of a candidate that violates a rule reports issues and
\* leaves the list of expenses as it was, so every expense a submit has
\* stored has a positive amount and split details that reconcile with its
\* method.  (SpecSubmit)
C15_NoPartialApplication ==
    [][/\ ViolatesSomeRule(candidate) =>
             expenses' = expenses /\ formErrors' # {}
       /\ \A i \in 1..Len(expenses') :
             expenses'[i].createdAt > 0 => Reconciles(expenses'[i])]_vars

\* a candidate violating one rule only, the total of its percentages, has
\* been rejected and nothing is stored
C15_Witness ==
    /\ ViolatesSomeRule(candidate)
    /\ candidate.splitMethod = "percentage"
    /\ Len(OrEmpty(candidate.splitDetails)) = 3
    /\ formErrors = {PercentageTotalIssue}
    /\ expenses = <<>>
    /\ now = 0

\* e2 is e1 but for its status and its updatedAt
SameButStatus(e1, e2) ==
    [e2 EXCEPT !.approvalStatus = e1.approvalStatus,
               !.updatedAt = e1.updatedAt] = e1

Changed == {i \in 1..Len(expenses) : expenses'[i] # expenses[i]}

\* C16: an approval or rejection of expense e changes the status and the
\* updatedAt of e only: its other fields, every other expense, and the
\* length and the order of the list stay as they were; and a call naming
\* an id that no expense has changes nothing.  (SpecHandlers)
C16_ApprovalFrame ==
    [][/\ Len(expenses') = Len(expenses) =>
             /\ Cardinality(Changed) <= 1
             /\ \A i \in Changed : SameButStatus(expenses[i], expenses'[i])
       /\ \A newStatus \in {"approved", "rejected"} :
             handleExpenseApproval(UnknownId, newStatus) => UNCHANGED vars]_vars

\* the second of two expenses has been approved after the first was
\* submitted, and the first is still as it was stored
C16_Witness ==
    /\ Len(expenses) = 2
    /\ expenses[2].approvalStatus = "approved"
    /\ expenses[2].updatedAt = now
    /\ expenses[1].createdAt > 0
    /\ expenses[1].updatedAt = expenses[1].createdAt
    /\ expenses[1].updatedAt < now
    /\ expenses[1].approvalStatus = "pending"

Ids(exps) == {exps[i].id : i \in 1..Len(exps)}

StatusChanged ==
    \E i \in 1..Len(expenses), j \in 1..Len(expenses') :
        /\ expenses'[j].id = expenses[i].id
        /\ expenses'[j].approvalStatus # expenses[i].approvalStatus

\* C17: no expense is ever removed: across every step each id of the list
\* is still in the list; a step that lengthens the list adds one expense
\* with a new id in front of the others, which are unchanged; and a step
\* that changes a status leaves the number of expenses as it was.  (Spec)
C17_NeverRemoved ==
    [][/\ Ids(expenses) \subseteq Ids(expenses')
       /\ Len(expenses') >= Len(expenses)
       /\ Len(expenses') # Len(expenses) =>
             /\ Len(expenses') = Len(expenses) + 1
             /\ Tail(expenses') = expenses
             /\ Head(expenses').id \notin Ids(expenses)
       /\ StatusChanged => Len(expenses') = Len(expenses)]_vars

\* after a submit, an approval and a rejection the three expenses the
\* component started with and the submitted one are all in the list
C17_Witness ==
    /\ Len(expenses) = 4
    /\ Ids(expenses) = {1, 2, 3, 4}
    /\ now >= 3
    /\ \E i \in 1..4 : expenses[i].approvalStatus = "rejected"
                        /\ expenses[i].updatedAt > 0
    /\ \E i \in 1..4 : expenses[i].approvalStatus = "approved"
                        /\ expenses[i].updatedAt > 0

RosterShares(e) ==
    /\ Len(e.splitDetails) = Len(participants)
    /\ \A k \in 1..Len(e.splitDetails) :
          /\ e.splitDetails[k].participantId = participants[k]
          /\ e.splitDetails[k].amount =
                Some(FDiv(e.amount, Len(participants)))

\* C19: an equal expense submitted with an empty list of split details is
\* stored with one row for each participant of the roster, each holding
\* the amount divided by the size of the roster.  (SpecSubmit)
C19_EqualFallsBackToRoster ==
    \A i \in 1..Len(expenses) :
        (expenses[i].createdAt > 0 /\ expenses[i].splitMethod = "equal"
            /\ NoSplitDetails(candidate))
           => RosterShares(expenses[i])

\* an equal expense of 120 submitted with an empty list of split details
\* to a roster of four is stored with four rows of 30
C19_Witness ==
    /\ Len(participants) = 4
    /\ candidate.splitMethod = "equal"
    /\ candidate.splitDetails = Some(<<>>)
    /\ Len(expenses) = 1
    /\ expenses[1].amount = FromInt(120)
    /\ Len(expenses[1].splitDetails) = 4
    /\ AllSharesAre(expenses[1].splitDetails, FromInt(30))

\* the expenses that a step turns from pending into the given status
Turned(status) ==
    {i \in 1..Len(expenses) :
        /\ Len(expenses') = Len(expenses)
        /\ expenses[i].approvalStatus = "pending"
        /\ expenses'[i].approvalStatus = status}

\* C20 as stated: after every operation the listed balances are those of
\* the current expenses; a submit and a rejection leave them as they were;
\* and the approval of a pending expense changes the running balances by
\* exactly the contribution of that expense.  (Spec)
C20_ApprovalAddsContribution ==
    [][/\ calculatedBalances' = CalculatedBalances(participants', expenses')
       /\ Len(expenses') > Len(expenses) => calculatedBalances' = calculatedBalances
       /\ Turned("rejected") # {} => calculatedBalances' = calculatedBalances
       /\ \A i \in Turned("approved") :
             RunningBalances(participants, expenses')
                = ApplyExpense(expenses[i],
                               RunningBalances(participants, expenses))]_vars

RECURSIVE SumOfAmounts(_, _)
SumOfAmounts(exps, sum) ==
    IF exps = <<>> THEN sum
    ELSE SumOfAmounts(Tail(exps), FAdd(sum, Head(exps).amount))

\* 2^-40 times the total of the approved amounts
RoundingAllowance(exps) ==
    Scale(SumOfAmounts(WithoutPendingAndRejected(exps), Zero), -40)

BalanceIds(balances) == {balances[i].participantId : i \in 1..Len(balances)}

AllClose(after, incremental, allowance) ==
    \A p \in BalanceIds(after) \cup BalanceIds(incremental) :
        ~FGt(FAbs(FSub(BalanceOrZero(after, p), BalanceOrZero(incremental, p))),
             allowance)

NoApprovedAfter(i) ==
    \A j \in (i + 1)..Len(expenses) : expenses[j].approvalStatus # "approved"

\* C20, amended: after every operation the listed balances are those of
\* the current expenses; a submit and a rejection leave them as they were;
\* and the approval of a pending expense e makes the running balances
\* those of before plus the contribution of e up to the rounding of the
\* sums (here within 2^-40 of the total approved amount), and exactly
\* those when no approved expense follows e in the list.  (Spec)
C20_ApprovalAddsContributionWithinRounding ==
    [][/\ calculatedBalances' = CalculatedBalances(participants', expenses')
       /\ Len(expenses') > Len(expenses) => calculatedBalances' = calculatedBalances
       /\ Turned("rejected") # {} => calculatedBalances' = calculatedBalances
       /\ \A i \in Turned("approved") :
             \A r \in {<<RunningBalances(participants, expenses'),
                         ApplyExpense(expenses[i],
                                      RunningBalances(participants, expenses)),
                         RoundingAllowance(expenses')>>} :
                 /\ AllClose(r[1], r[2], r[3])
                 /\ NoApprovedAfter(i) => r[1] = r[2]]_vars

\* the first expense of the list has just been approved, an approved
\* expense follows it, and the balances computed anew differ from those
\* of the rest of the list plus the contribution of the first
C20_Witness ==
    /\ Len(expenses) >= 2
    /\ expenses[1].approvalStatus = "approved"
    /\ expenses[1].updatedAt = now
    /\ expenses[1].updatedAt > expenses[1].createdAt
    /\ expenses[2].approvalStatus = "approved"
    /\ calculatedBalances = CalculatedBalances(participants, expenses)
    /\ RunningBalances(participants, expenses)
          # ApplyExpense(expenses[1], RunningBalances(participants, Tail(expenses)))

RECURSIVE SumOfBalances(_, _)
SumOfBalances(balances, sum) ==
    IF balances = <<>> THEN sum
    ELSE SumOfBalances(Tail(balances), FAdd(sum, Head(balances).netAmount))

\* C21 as stated: in every state of the component the running balances,
\* before the filter, add up to zero.  (Spec; they do not always)
C21_BalancesSumToZero ==
    SumOfBalances(RunningBalances(participants, expenses), Zero) = Zero

\* C21, amended: in every state of the component the running balances,
\* before the filter, add up to zero to within the rounding of the sums:
\* the absolute value of their total is at most 2^-40 times the total of
\* the approved amounts.  (Spec)
C21_BalancesSumToZeroWithinRounding ==
    ~FGt(FAbs(SumOfBalances(RunningBalances(participants, expenses), Zero)),
         RoundingAllowance(expenses))

\* a submitted expense has been approved and the running balances add up
\* to a number that is not zero
C21_Witness ==
    /\ \E i \in 1..Len(expenses) :
          /\ expenses[i].createdAt > 0
          /\ expenses[i].approvalStatus = "approved"
    /\ SumOfBalances(RunningBalances(participants, expenses), Zero) # Zero


(***************************************************************************)
(* RSVPManager.  An RSVP keeps id, status, plusOne and respondedAt (the    *)
(* fields the handlers read or write); the event keeps maxGuests,          *)
(* currentGuestCount and allowWaitlist, each optional.  Guest counts are   *)
(* small integers.                                                         *)
(***************************************************************************)
Rsvp(id, status, plusOne) ==
    [id |-> id, status |-> status, plusOne |-> plusOne, respondedAt |-> 0]

generateMockEventDetails ==
    [maxGuests |-> Some(5), currentGuestCount |-> Some(3),
     allowWaitlist |-> Some(TRUE)]

generateMockRsvps ==
    << Rsvp(1, "accepted", TRUE), Rsvp(2, "accepted", FALSE),
       Rsvp(3, "pending_approval", FALSE), Rsvp(4, "pending_approval", TRUE),
       Rsvp(5, "declined", FALSE), Rsvp(6, "waitlisted", FALSE) >>

\* { ...base, ...over }: the keys of over replace those of base
Spread(base, over) ==
    [k \in DOMAIN base |-> IF k \in DOMAIN over THEN over[k] ELSE base[k]]

\* useState initialisers of eventDetails and rsvps
InitialEventDetails(initialEventDetails) ==
    IF IsDefined(initialEventDetails)
    THEN Spread(generateMockEventDetails, initialEventDetails[1])
    ELSE generateMockEventDetails

InitialRsvps(initialRsvps) ==
    IF IsDefined(initialRsvps) THEN initialRsvps[1] ELSE generateMockRsvps

\* 1 + (rsvp.plusOne ? 1 : 0)
guestCountForThisRsvp(rsvp) == 1 + (IF rsvp.plusOne THEN 1 ELSE 0)

\* the mutant counts one guest per accepted RSVP
RECURSIVE acceptedCountHeads(_)
acceptedCountHeads(list) ==
    IF list = <<>> THEN 0
    ELSE acceptedCountHeads(Tail(list))
         + (IF Head(list).status = "accepted" THEN 1 ELSE 0)

\* rsvps.reduce(...) of the guest-count effect
RECURSIVE acceptedCount(_)
acceptedCount(list) ==
    IF list = <<>> THEN 0
    ELSE acceptedCount(Tail(list))
         + (IF Head(list).status = "accepted"
            THEN guestCountForThisRsvp(Head(list)) ELSE 0)

\* the effect on [rsvps]: it runs after a render in which rsvps changed
GuestCountEffect ==
    /\ rsvpsChanged
    /\ eventDetails' = [eventDetails EXCEPT
                           !.currentGuestCount = Some(acceptedCount(rsvps))]
    /\ rsvpsChanged' = FALSE
    /\ UNCHANGED <<rsvps, now>>

\* (o || 0) for an optional count
OrNought(o) == IF IsDefined(o) THEN o[1] ELSE 0

\* eventDetails.maxGuests && (currentGuests + party) > eventDetails.maxGuests
AtCapacity(party) ==
    /\ IsDefined(eventDetails.maxGuests)
    /\ eventDetails.maxGuests[1] # 0
    /\ OrNought(eventDetails.currentGuestCount) + party
           > eventDetails.maxGuests[1]

\* eventDetails.allowWaitlist as a condition
AllowWaitlist == IsDefined(eventDetails.allowWaitlist)
                 /\ eventDetails.allowWaitlist[1]

updateRsvpStatus(rsvpId, newStatus) ==
    /\ now < MaxClock
    /\ rsvps' = [i \in 1..Len(rsvps) |->
                    IF rsvps[i].id = rsvpId
                    THEN [rsvps[i] EXCEPT !.status = newStatus,
                                          !.respondedAt = now + 1]
                    ELSE rsvps[i]]
    /\ now' = now + 1
    /\ rsvpsChanged' = TRUE
    /\ UNCHANGED eventDetails

\* a handler that only shows a toast
ToastOnly == UNCHANGED <<eventDetails, rsvps, rsvpsChanged, now>>

\* the mutant accepts without looking at the capacity
handleApproveRsvpUnchecked(rsvp) == updateRsvpStatus(rsvp.id, "accepted")

\* the mutant waitlists whatever allowWaitlist says
handleApproveRsvpAlwaysWaitlist(rsvp) ==
    IF AtCapacity(guestCountForThisRsvp(rsvp))
    THEN updateRsvpStatus(rsvp.id, "waitlisted")
    ELSE updateRsvpStatus(rsvp.id, "accepted")

handleApproveRsvp(rsvp) ==
    IF AtCapacity(guestCountForThisRsvp(rsvp))
    THEN IF AllowWaitlist
         THEN updateRsvpStatus(rsvp.id, "waitlisted")
         ELSE ToastOnly
    ELSE updateRsvpStatus(rsvp.id, "accepted")

handleDenyRsvp(rsvpId) == updateRsvpStatus(rsvpId, "declined")

handleAcceptFromWaitlist(rsvp) ==
    IF AtCapacity(guestCountForThisRsvp(rsvp))
    THEN ToastOnly
    ELSE updateRsvpStatus(rsvp.id, "accepted")

\* rsvps.find(r => r.id === rsvpId)
FoundRsvp(rsvpId) == \E i \in 1..Len(rsvps) : rsvps[i].id = rsvpId

rsvpToUpdate(rsvpId) ==
    rsvps[CHOOSE i \in 1..Len(rsvps) :
              /\ rsvps[i].id = rsvpId
              /\ \A j \in 1..(i - 1) : rsvps[j].id # rsvpId]

\* guestChange is still 0 where the capacity is tested
handleManualStatusChange(rsvpId, newStatus) ==
    IF ~FoundRsvp(rsvpId)
    THEN ToastOnly      \* if (!rsvpToUpdate) return;
    ELSE IF /\ rsvpToUpdate(rsvpId).status # "accepted"
            /\ newStatus = "accepted"
            /\ AtCapacity(0 + guestCountForThisRsvp(rsvpToUpdate(rsvpId)))
         THEN ToastOnly
         ELSE updateRsvpStatus(rsvpId, newStatus)


(***************************************************************************)
(* The table of RSVPs as rendered: which buttons and menu items a row has. *)
(* A click is handled by the render that follows the guest-count effect:   *)
(* React runs the effects of a committed render, and the render they       *)
(* cause, before it dispatches the next click.                             *)
(***************************************************************************)
Rendered == ~rsvpsChanged

\* the mutant also offers the buttons of a render whose effect has not run
RowButtonsEarly(rsvp, button) ==
    CASE button = "approve" -> rsvp.status = "pending_approval"
      [] button = "deny" -> rsvp.status = "pending_approval"
      [] button = "accept_from_waitlist" -> rsvp.status = "waitlisted"
      [] OTHER -> FALSE

RowButtons(rsvp, button) ==
    /\ Rendered
    /\ CASE button = "approve" -> rsvp.status = "pending_approval"
         [] button = "deny" -> rsvp.status = "pending_approval"
         [] button = "accept_from_waitlist" -> rsvp.status = "waitlisted"
         [] OTHER -> FALSE

\* the items of the row's dropdown menu
MenuItems(rsvp, newStatus) ==
    /\ Rendered
    /\ rsvp.status \in {"accepted", "declined"}
    /\ CASE newStatus = "accepted" -> rsvp.status # "accepted"
         [] newStatus = "declined" -> rsvp.status # "declined"
         [] newStatus = "waitlisted" ->
                rsvp.status # "waitlisted" /\ AllowWaitlist
         [] OTHER -> FALSE

otherThanRsvps == <<expenseState, pageVars, taskVars, inviteVars>>

ApproveRsvp ==
    /\ \E i \in 1..Len(rsvps) :
          /\ RowButtons(rsvps[i], "approve")
          /\ handleApproveRsvp(rsvps[i])
    /\ UNCHANGED otherThanRsvps

DenyRsvp ==
    /\ \E i \in 1..Len(rsvps) :
          /\ RowButtons(rsvps[i], "deny")
          /\ handleDenyRsvp(rsvps[i].id)
    /\ UNCHANGED otherThanRsvps

AcceptFromWaitlist ==
    /\ \E i \in 1..Len(rsvps) :
          /\ RowButtons(rsvps[i], "accept_from_waitlist")
          /\ handleAcceptFromWaitlist(rsvps[i])
    /\ UNCHANGED otherThanRsvps

ManualStatusChange ==
    /\ \E i \in 1..Len(rsvps),
          newStatus \in {"accepted", "declined", "waitlisted"} :
          /\ MenuItems(rsvps[i], newStatus)
          /\ handleManualStatusChange(rsvps[i].id, newStatus)
    /\ UNCHANGED otherThanRsvps

RunGuestCountEffect ==
    /\ GuestCountEffect
    /\ UNCHANGED otherThanRsvps

(***************************************************************************)
(* SpecRsvps: the organizer's table, mounted with the mock data or with    *)
(* properties of the caller.  Every initial list is within the capacity of *)
(* its event; currentGuestCount of the properties need not agree with the  *)
(* list.                                                                   *)
(***************************************************************************)
RsvpProps ==
    { <<Undefined, Undefined>>,
      <<Some([maxGuests |-> Some(4), allowWaitlist |-> Some(FALSE)]),
        Undefined>>,
      <<Some([currentGuestCount |-> Undefined]),
        Some(<<Rsvp(1, "pending_approval", FALSE),
               Rsvp(2, "pending_approval", TRUE)>>)>>,
      <<Some([maxGuests |-> Some(2), currentGuestCount |-> Some(0),
              allowWaitlist |-> Undefined]),
        Some(<<Rsvp(1, "accepted", FALSE), Rsvp(2, "pending_approval", TRUE),
               Rsvp(3, "waitlisted", FALSE), Rsvp(4, "declined", TRUE)>>)>>,
      <<Some([maxGuests |-> Undefined]),
        Some(<<Rsvp(1, "pending_approval", TRUE),
               Rsvp(2, "waitlisted", TRUE), Rsvp(3, "declined", FALSE)>>)>> }

InitRsvps ==
    /\ ExpenseTrackerUnmounted
    /\ RsvpPageUnmounted
    /\ TaskViewUnmounted
    /\ InvitationManagerUnmounted
    /\ now = 0
    /\ \E props \in RsvpProps :
          /\ eventDetails = InitialEventDetails(props[1])
          /\ rsvps = InitialRsvps(props[2])
    /\ rsvpsChanged = TRUE      \* the effect runs after the first render

NextRsvps == RunGuestCountEffect \/ ApproveRsvp \/ DenyRsvp
                \/ AcceptFromWaitlist \/ ManualStatusChange

SpecRsvps == InitRsvps /\ [][NextRsvps]_vars


(***************************************************************************)
(* Properties of the RSVP table.                                           *)
(***************************************************************************)
\* the accepted guests of a list: its accepted RSVPs and their companions
AcceptedGuests(list) ==
    Cardinality({i \in 1..Len(list) : list[i].status = "accepted"})
    + Cardinality({i \in 1..Len(list) :
                      list[i].status = "accepted" /\ list[i].plusOne})

\* the event has a capacity (the code reads a missing maxGuests as no limit)
MaxGuestsSet == IsDefined(eventDetails.maxGuests)

CapacityCheckOffered ==
    \E i \in 1..Len(rsvps) :
        \/ RowButtons(rsvps[i], "approve")
        \/ RowButtons(rsvps[i], "accept_from_waitlist")
        \/ MenuItems(rsvps[i], "accepted")

PartyFits(i) ==
    MaxGuestsSet =>
        AcceptedGuests(rsvps) + (IF rsvps[i].plusOne THEN 2 ELSE 1)
            <= eventDetails.maxGuests[1]

\* this step is a click on Approve in row i
Approving(i) ==
    /\ RowButtons(rsvps[i], "approve")
    /\ handleApproveRsvp(rsvps[i])

\* this step is a click on Accept from Waitlist in row i
AcceptingFromWaitlist(i) ==
    /\ RowButtons(rsvps[i], "accept_from_waitlist")
    /\ handleAcceptFromWaitlist(rsvps[i])

OthersUntouched(i) ==
    /\ Len(rsvps') = Len(rsvps)
    /\ \A j \in 1..Len(rsvps) : j # i => rsvps'[j] = rsvps[j]

mockInvitations ==
    << [id |-> "inv-123-personal", eventId |-> "event-abc-1",
        token |-> "personal-token-123", requiresApproval |-> FALSE],
       [id |-> "inv-456-approval", eventId |-> "event-xyz-2",
        token |-> "approval-token-456", requiresApproval |-> TRUE],
       [id |-> "inv-789-link", eventId |-> "event-def-3",
        token |-> "link-token-789", requiresApproval |-> FALSE] >>

mockEventDetails ==
    [e \in {"event-abc-1", "event-xyz-2", "event-def-3"} |->
        [requiresApproval |->
            IF e = "event-xyz-2" THEN Some(TRUE) ELSE Undefined]]

\* mockInvitations.find(inv => inv.token === invitationToken)
foundInvitation(invitationToken) ==
    IF \E k \in 1..Len(mockInvitations) :
           mockInvitations[k].token = invitationToken
    THEN Some(mockInvitations[CHOOSE k \in 1..Len(mockInvitations) :
                  /\ mockInvitations[k].token = invitationToken
                  /\ \A j \in 1..(k - 1) :
                         mockInvitations[j].token # invitationToken])
    ELSE Undefined

\* a || b and a && b on optional booleans: the operand that decides
OrElse(a, b) == IF a = Some(TRUE) THEN a ELSE b
AndAlso(a, b) == IF a = Some(TRUE) THEN b ELSE a

RsvpFormValues(guestName, status, plusOne, plusOneName) ==
    [guestName |-> guestName, status |-> status, plusOne |-> plusOne,
     plusOneName |-> plusOneName]

\* rsvpFormSchema accepts the data
rsvpFormSchema(data) ==
    /\ Len(data.guestName) >= 2
    /\ IsDefined(data.status)
    /\ data.status[1] \in {"accepted", "declined", "waitlisted",
                           "pending_approval"}
    /\ ~data.plusOne \/ Len(data.plusOneName) >= 2

\* invitation.requiresApproval || eventDetail.requiresApproval
needsApproval ==
    OrElse(Some(invitation[1].requiresApproval),
           eventDetail[1].requiresApproval)

\* the mutant records the status as submitted
finalStatusAsSubmitted(data) == data.status[1]

finalStatus(data) ==
    IF data.status[1] = "accepted" /\ needsApproval = Some(TRUE)
    THEN "pending_approval"
    ELSE data.status[1]

\* the mutant's timer confirms whatever was recorded
TimeoutConfirms(status) ==
    /\ isSubmitting' = FALSE
    /\ submittedRsvpStatus' = Some("accepted")

\* the callback of setTimeout, with the finalStatus of its submission
Timeout(status) ==
    /\ isSubmitting' = FALSE
    /\ submittedRsvpStatus' =
          IF status = "pending_approval" THEN submittedRsvpStatus
          ELSE IF status = "accepted" THEN Some("accepted")
          ELSE Some(status)

onSubmitRsvp(data) ==
    IF ~IsDefined(invitation) \/ ~IsDefined(eventDetail)
    THEN UNCHANGED <<pageVars, now>>
    ELSE /\ now < MaxClock
         /\ isSubmitting' = TRUE
         /\ rsvpData' = Some(
               [invitationId |-> invitation[1].id,
                eventId |-> invitation[1].eventId,
                guestName |-> data.guestName,
                status |-> finalStatus(data),
                plusOne |-> data.plusOne,
                plusOneName |-> IF data.plusOne THEN Some(data.plusOneName)
                                ELSE Undefined,
                respondedAt |-> now + 1,
                needsApproval |->
                    AndAlso(needsApproval,
                            Some(data.status[1] = "accepted"))])
         /\ now' = now + 1
         /\ timers' = Append(timers, finalStatus(data))
         /\ UNCHANGED <<invitation, eventDetail, submittedRsvpStatus>>

isRsvpSubmittedAndAccepted == submittedRsvpStatus = Some("accepted")

\* the form is rendered and its submit button is enabled
SubmitEnabled(data) ==
    /\ IsDefined(invitation)
    /\ IsDefined(eventDetail)
    /\ ~isRsvpSubmittedAndAccepted
    /\ ~isSubmitting
    /\ IsDefined(data.status)


otherThanPage == <<expenseState, rsvpVars, taskVars, inviteVars>>

\* what the fields of the form can hold when it is submitted: the radio
\* group offers accepted and declined
PageInputs ==
    { RsvpFormValues(name, status, plusOne, plusOneName) :
        name \in {"A", "Ann"},
        status \in {Undefined, Some("accepted"), Some("declined")},
        plusOne \in BOOLEAN,
        plusOneName \in {"", "Bo"} }

\* form.handleSubmit(onSubmitRsvp): the handler runs on valid data
SubmitRsvp ==
    /\ \E data \in PageInputs :
          /\ SubmitEnabled(data)
          /\ IF rsvpFormSchema(data)
             THEN onSubmitRsvp(data)
             ELSE UNCHANGED <<pageVars, now>>
    /\ UNCHANGED otherThanPage

\* the oldest pending timer fires (all have the same delay)
TimerFires ==
    /\ timers # <<>>
    /\ Timeout(Head(timers))
    /\ timers' = Tail(timers)
    /\ UNCHANGED <<invitation, eventDetail, rsvpData, now>>
    /\ UNCHANGED otherThanPage

(***************************************************************************)
(* SpecRsvpPage: the page after its loading effect, for the three tokens   *)
(* of the mock invitations and for a token that matches none.              *)
(***************************************************************************)
InvitationTokens ==
    {mockInvitations[k].token : k \in 1..Len(mockInvitations)}
        \cup {"unknown-token"}

InitRsvpPage ==
    /\ ExpenseTrackerUnmounted
    /\ RSVPManagerUnmounted
    /\ TaskViewUnmounted
    /\ InvitationManagerUnmounted
    /\ now = 0
    /\ \E invitationToken \in InvitationTokens :
          /\ invitation = foundInvitation(invitationToken)
          /\ eventDetail =
                IF IsDefined(invitation)
                THEN Some(mockEventDetails[invitation[1].eventId])
                ELSE Undefined
    /\ isSubmitting = FALSE
    /\ submittedRsvpStatus = Undefined
    /\ rsvpData = Undefined
    /\ timers = <<>>

NextRsvpPage == SubmitRsvp \/ TimerFires

SpecRsvpPage == InitRsvpPage /\ [][NextRsvpPage]_vars

(***************************************************************************)
(* Properties of the guest's page.                                         *)
(***************************************************************************)
\* the invitation or its event requires approval
RequiresApproval ==
    \/ invitation[1].requiresApproval
    \/ eventDetail[1].requiresApproval = Some(TRUE)

\* this step submits data
Submitting(data) ==
    /\ SubmitEnabled(data)
    /\ rsvpFormSchema(data)
    /\ onSubmitRsvp(data)

\* C25: an answer of accepted on an invitation or event that requires
\* approval is recorded as pending_approval with needsApproval true; in
\* every other case the recorded status is the submitted one and
\* needsApproval is not true.  The confirmed-spot view (submittedRsvpStatus
\* accepted) is shown only when the recorded status is accepted.
C25_PendingApprovalRecorded ==
    /\ [][\A data \in PageInputs : Submitting(data) =>
            IF data.status = Some("accepted") /\ RequiresApproval
            THEN /\ rsvpData'[1].status = "pending_approval"
                 /\ rsvpData'[1].needsApproval = Some(TRUE)
            ELSE /\ rsvpData'[1].status = data.status[1]
                 /\ rsvpData'[1].needsApproval # Some(TRUE)]_vars
    /\ [](isRsvpSubmittedAndAccepted =>
            /\ IsDefined(rsvpData)
            /\ rsvpData[1].status = "accepted"
            /\ ~RequiresApproval)

\* after a declined answer was confirmed, an accepted answer is pending
\* approval: the page still shows the form
C25_Witness ==
    /\ IsDefined(rsvpData)
    /\ rsvpData[1].status = "pending_approval"
    /\ rsvpData[1].needsApproval = Some(TRUE)
    /\ submittedRsvpStatus = Some("declined")
    /\ timers = <<>>


(***************************************************************************)
(* EventTaskListParticipantView.  A task keeps id, status, assignedTo,     *)
(* volunteerSlots, volunteers (the last three optional) and updatedAt.     *)
(* The ids of a list are distinct (uuidv4).                                *)
(***************************************************************************)
Task(id, status, assignedTo, volunteerSlots, volunteers) ==
    [id |-> id, status |-> status, assignedTo |-> assignedTo,
     volunteerSlots |-> volunteerSlots, volunteers |-> volunteers,
     updatedAt |-> 0]

generateMockTasks ==
    << Task(1, "todo", Some(<<"Organizer Team">>), Some(5),
            Some(<<"Bob", "Charlie">>)),
       Task(2, "in_progress", Some(<<"Anna">>), Some(2),
            Some(<<"participant-user-123">>)),
       Task(3, "todo", Some(<<"Caterer Co.">>), Some(3), Some(<<>>)),
       Task(4, "todo", Some(<<>>), Some(10), Some(<<"David", "Eve">>)),
       Task(5, "done", Some(<<"participant-user-123">>), Undefined,
            Undefined) >>

\* array?.includes(x): undefined for a missing array, which is falsy
Includes(array, x) == IsDefined(array) /\ x \in SeqToSet(array[1])

isAlreadyInvolved(task) ==
    \/ Includes(task.volunteers, currentParticipantId)
    \/ Includes(task.assignedTo, currentParticipantId)

\* (task.volunteers?.length || 0) < (task.volunteerSlots || 0)
SlotFree(task) ==
    Len(OrEmpty(task.volunteers)) < OrNought(task.volunteerSlots)

\* the mutant adds the participant whenever a slot is free
VolunteerForSlotOnly(task) ==
    IF SlotFree(task)
    THEN [task EXCEPT !.volunteers =
             Some(Append(OrEmpty(task.volunteers), currentParticipantId))]
    ELSE task

\* the mutant adds every participant not yet involved
VolunteerForUninvolved(task) ==
    IF ~isAlreadyInvolved(task)
    THEN [task EXCEPT !.volunteers =
             Some(Append(OrEmpty(task.volunteers), currentParticipantId))]
    ELSE task

\* what the updater of handleVolunteer returns for the task with the id
VolunteerFor(task) ==
    IF ~isAlreadyInvolved(task) /\ SlotFree(task)
    THEN [task EXCEPT !.volunteers =
             Some(Append(OrEmpty(task.volunteers), currentParticipantId))]
    ELSE task

handleVolunteer(taskId) ==
    /\ tasks' = [k \in 1..Len(tasks) |->
                    IF tasks[k].id = taskId THEN VolunteerFor(tasks[k])
                    ELSE tasks[k]]
    /\ UNCHANGED <<currentParticipantId, now>>

\* the mutant lets every participant update
canUpdateAnyone(task) == TRUE

canUpdate(task) ==
    \/ Includes(task.assignedTo, currentParticipantId)
    \/ Includes(task.volunteers, currentParticipantId)

\* some task has the id and may be updated by the participant: the
\* updater reads the clock
Updates(taskId) ==
    \E k \in 1..Len(tasks) : tasks[k].id = taskId /\ canUpdate(tasks[k])

\* the mutant stamps the other tasks too
handleUpdateTaskStatusStampAll(taskId, newStatus) ==
    /\ Updates(taskId) => now < MaxClock
    /\ tasks' = [k \in 1..Len(tasks) |->
                    IF tasks[k].id = taskId /\ canUpdate(tasks[k])
                    THEN [tasks[k] EXCEPT !.status = newStatus,
                                          !.updatedAt = now + 1]
                    ELSE IF Updates(taskId)
                    THEN [tasks[k] EXCEPT !.updatedAt = now + 1]
                    ELSE tasks[k]]
    /\ now' = IF Updates(taskId) THEN now + 1 ELSE now
    /\ UNCHANGED currentParticipantId

handleUpdateTaskStatus(taskId, newStatus) ==
    /\ Updates(taskId) => now < MaxClock
    /\ tasks' = [k \in 1..Len(tasks) |->
                    IF tasks[k].id = taskId /\ canUpdate(tasks[k])
                    THEN [tasks[k] EXCEPT !.status = newStatus,
                                          !.updatedAt = now + 1]
                    ELSE tasks[k]]
    /\ now' = IF Updates(taskId) THEN now + 1 ELSE now
    /\ UNCHANGED currentParticipantId

otherThanTasks == <<expenseState, rsvpVars, pageVars, inviteVars>>

\* an id no task has
UnknownTaskId == 0

TaskIds == {tasks[k].id : k \in 1..Len(tasks)} \cup {UnknownTaskId}

CallVolunteer ==
    /\ \E taskId \in TaskIds : handleVolunteer(taskId)
    /\ UNCHANGED otherThanTasks

CallUpdateTaskStatus ==
    /\ \E taskId \in TaskIds, newStatus \in {"in_progress", "done"} :
          handleUpdateTaskStatus(taskId, newStatus)
    /\ UNCHANGED otherThanTasks

(***************************************************************************)
(* SpecTasks: the two handlers called for any task of the list, by a       *)
(* participant who is or is not involved; the list is the mock list or a   *)
(* list with a full task, a task without slots and a task without arrays.  *)
(***************************************************************************)
TaskProps ==
    { <<"participant-user-123", Undefined>>,
      <<"Bob", Undefined>>,
      <<"Zoe", Some(<< Task(1, "todo", Undefined, Some(1), Some(<<"Bob">>)),
                       Task(2, "blocked", Some(<<"Zoe">>), Some(2), Undefined),
                       Task(3, "todo", Undefined, Some(1), Undefined),
                       Task(4, "cancelled", Some(<<"Anna">>), Undefined,
                            Undefined) >>)>> }

InitTasks ==
    /\ ExpenseTrackerUnmounted
    /\ RSVPManagerUnmounted
    /\ RsvpPageUnmounted
    /\ InvitationManagerUnmounted
    /\ now = 0
    /\ \E props \in TaskProps :
          /\ currentParticipantId = props[1]
          /\ tasks = IF IsDefined(props[2]) THEN props[2][1]
                     ELSE generateMockTasks

NextTasks == CallVolunteer \/ CallUpdateTaskStatus

SpecTasks == InitTasks /\ [][NextTasks]_vars


(***************************************************************************)
(* Properties of the participant's task view.                              *)
(***************************************************************************)
\* how often x occurs in a sequence
Occurrences(list, x) == Cardinality({k \in 1..Len(list) : list[k] = x})

VolunteersOf(task) == OrEmpty(task.volunteers)

SlotsOf(task) == OrNought(task.volunteerSlots)

\* this step adds the participant to the volunteers of task k
Joins(k) ==
    Len(VolunteersOf(tasks'[k])) > Len(VolunteersOf(tasks[k]))

\* an attempt to volunteer for task k is refused in this state
Refused(k) ==
    \/ currentParticipantId \in SeqToSet(VolunteersOf(tasks[k]))
    \/ currentParticipantId \in SeqToSet(OrEmpty(tasks[k].assignedTo))
    \/ Len(VolunteersOf(tasks[k])) >= SlotsOf(tasks[k])

\* this step is a call of handleVolunteer for task k
Volunteering(k) == handleVolunteer(tasks[k].id)

\* C26: volunteer slots are never overfilled: for every task the number of
\* volunteers is at most volunteerSlots, the current participant is at most
\* once among a task's volunteers and is never added to a task they are
\* assigned to; a refused attempt (already involved, or no slot free)
\* leaves the task unchanged.
C26_SlotsNeverOverfilled ==
    /\ [](\A k \in 1..Len(tasks) :
            /\ Len(VolunteersOf(tasks[k])) <= SlotsOf(tasks[k])
            /\ Occurrences(VolunteersOf(tasks[k]), currentParticipantId) <= 1)
    /\ [][\A k \in 1..Len(tasks) :
            /\ Joins(k) =>
                  currentParticipantId
                      \notin SeqToSet(OrEmpty(tasks[k].assignedTo))
            /\ Volunteering(k) /\ Refused(k) => tasks'[k] = tasks[k]
            /\ Volunteering(k) /\ ~Refused(k) =>
                  VolunteersOf(tasks'[k]) =
                      Append(VolunteersOf(tasks[k]), currentParticipantId)]_vars

\* the participant took the last slot of a task, and is neither a
\* volunteer of the task they are assigned to nor of the full task
C26_Witness ==
    /\ \E k \in 1..Len(tasks) :
          /\ VolunteersOf(tasks[k]) = <<currentParticipantId>>
          /\ SlotsOf(tasks[k]) = 1
    /\ \E k \in 1..Len(tasks) :
          /\ currentParticipantId \in SeqToSet(OrEmpty(tasks[k].assignedTo))
          /\ SlotsOf(tasks[k]) = 2
          /\ VolunteersOf(tasks[k]) = <<>>
    /\ \E k \in 1..Len(tasks) :
          /\ SlotsOf(tasks[k]) = 1
          /\ currentParticipantId \notin SeqToSet(VolunteersOf(tasks[k]))
          /\ Len(VolunteersOf(tasks[k])) = 1


\* the participant is listed in the task's assignedTo or volunteers
Listedin(task) ==
    currentParticipantId \in
        SeqToSet(OrEmpty(task.assignedTo)) \cup SeqToSet(VolunteersOf(task))

\* this step is a call of handleUpdateTaskStatus for task k
UpdatingStatus(k, newStatus) == handleUpdateTaskStatus(tasks[k].id, newStatus)

\* C27: handleUpdateTaskStatus changes a task's status and updatedAt only
\* when the current participant is listed in the task's assignedTo or
\* volunteers; when the participant is neither, the task is left unchanged;
\* tasks other than the targeted one are never modified.
C27_OnlyInvolvedUpdate ==
    [][\A k \in 1..Len(tasks) :
          /\ (tasks'[k].status # tasks[k].status
                 \/ tasks'[k].updatedAt # tasks[k].updatedAt)
                => Listedin(tasks[k])
          /\ \A newStatus \in {"in_progress", "done"} :
                UpdatingStatus(k, newStatus) =>
                   /\ Listedin(tasks[k]) =>
                         tasks'[k] = [tasks[k] EXCEPT !.status = newStatus,
                                                      !.updatedAt = now']
                   /\ ~Listedin(tasks[k]) => tasks'[k] = tasks[k]
                   /\ \A j \in 1..Len(tasks) :
                         j # k => tasks'[j] = tasks[j]]_vars

\* a volunteer marked their task as done, after volunteering for it, while
\* a task they have no part in kept its status
C27_Witness ==
    \E k, j \in 1..Len(tasks) :
        /\ tasks[k].status = "done"
        /\ tasks[k].updatedAt > 0
        /\ ~Includes(tasks[k].assignedTo, currentParticipantId)
        /\ Len(VolunteersOf(tasks[k])) = 3
        /\ ~Listedin(tasks[j])
        /\ tasks[j].updatedAt = 0


(***************************************************************************)
(* InvitationManager: sub-invitations.  An invitation keeps id, type,      *)
(* parentId, canInviteOthers, maxSubInvites, subInvitesCount (the last     *)
(* four optional) and createdAt.  uuidv4() at time t is the id t, which no *)
(* other invitation has: the invitations of the properties have ids above  *)
(* 100 and createdAt 0.                                                    *)
(***************************************************************************)
Invitation(id, type, parentId, canInviteOthers, maxSubInvites, subInvitesCount, createdAt) ==
    [id |-> id, type |-> type, parentId |-> parentId,
     canInviteOthers |-> canInviteOthers, maxSubInvites |-> maxSubInvites,
     subInvitesCount |-> subInvitesCount, createdAt |-> createdAt]

\* the row added for a public event that has no public invitation
PublicEventLink ==
    Invitation(100, "public", Undefined, Undefined, Undefined, Undefined, 0)

getInitialInvitations(eventVisibility) ==
    IF /\ eventVisibility = "public"
       /\ \A k \in 1..Len(initialInvitations) :
              initialInvitations[k].type # "public"
    THEN <<PublicEventLink>> \o initialInvitations
    ELSE initialInvitations

\* invite.canInviteOthers && (invite.maxSubInvites == null || ... < ...)
canCreateSubInvite(invite) ==
    /\ invite.canInviteOthers = Some(TRUE)
    /\ IF IsDefined(invite.maxSubInvites)
       THEN OrNought(invite.subInvitesCount) < invite.maxSubInvites[1]
       ELSE TRUE

\* the mutant refuses only the parents that may not invite
NotAllowedIgnoringLimit(parentInvite) ==
    parentInvite.canInviteOthers # Some(TRUE)

\* the mutant refuses only the parents at their limit
NotAllowedIgnoringFlag(parentInvite) ==
    /\ IsDefined(parentInvite.maxSubInvites)
    /\ OrNought(parentInvite.subInvitesCount) >= parentInvite.maxSubInvites[1]

\* the condition of the early return of handleCreateSubInvitation
NotAllowed(parentInvite) ==
    \/ parentInvite.canInviteOthers # Some(TRUE)
    \/ /\ IsDefined(parentInvite.maxSubInvites)
       /\ OrNought(parentInvite.subInvitesCount)
              >= parentInvite.maxSubInvites[1]

\* the mutant's child may invite others in turn
newSubInvitationCanInvite(parentInvite) ==
    Invitation(now + 1, "hierarchical", Some(parentInvite.id), Some(TRUE),
               Undefined, Undefined, now + 1)

newSubInvitation(parentInvite) ==
    Invitation(now + 1, "hierarchical", Some(parentInvite.id), Some(FALSE),
               Undefined, Undefined, now + 1)

\* prev.findIndex(inv => inv.id === parentInvite.id) finds the parent
ParentFound(parentInvite) ==
    \E k \in 1..Len(invitations) : invitations[k].id = parentInvite.id

parentIndex(parentInvite) ==
    CHOOSE k \in 1..Len(invitations) :
        /\ invitations[k].id = parentInvite.id
        /\ \A j \in 1..(k - 1) : invitations[j].id # parentInvite.id

\* the mutant adds the child and leaves the parent's count
WithSubInvitationOnly(parentInvite) ==
    IF ~ParentFound(parentInvite) THEN invitations
    ELSE <<newSubInvitation(parentInvite)>> \o invitations

\* the updater passed to setInvitations
WithSubInvitation(parentInvite) ==
    IF ~ParentFound(parentInvite) THEN invitations
    ELSE <<newSubInvitation(parentInvite)>> \o
         [invitations EXCEPT ![parentIndex(parentInvite)].subInvitesCount =
             Some(OrNought(
                 invitations[parentIndex(parentInvite)].subInvitesCount) + 1)]

handleCreateSubInvitation(parentInvite) ==
    IF NotAllowed(parentInvite)
    THEN UNCHANGED <<inviteVars, timers, now>>
    ELSE /\ now < MaxClock
         /\ now' = now + 1
         /\ invitations' = WithSubInvitation(parentInvite)
         /\ showSubInviteModal' = Undefined
         /\ UNCHANGED <<initialInvitations, timers>>

\* emailSchema accepts canInviteOthers and maxSubInvites
emailSchema(data) ==
    /\ IsDefined(data.maxSubInvites) => data.maxSubInvites[1] > 0
    /\ data.canInviteOthers =>
          IsDefined(data.maxSubInvites) /\ data.maxSubInvites[1] > 0

\* the invitation is built at once and added by the timer callback
handleSendPersonalInvitation(data) ==
    /\ now < MaxClock
    /\ now' = now + 1
    /\ timers' = Append(timers,
          Invitation(now + 1, "personal", Undefined,
                     Some(data.canInviteOthers),
                     IF data.canInviteOthers THEN data.maxSubInvites
                     ELSE Undefined,
                     Some(0), now + 1))
    /\ UNCHANGED inviteVars

\* isLoading: set by the handler, cleared by its timer callback
isLoading == timers # <<>>


otherThanInvitations ==
    <<expenseState, rsvpVars, taskVars, invitation, eventDetail,
      isSubmitting, submittedRsvpStatus, rsvpData>>

\* the rows of the table: the public invitation has none
Rows == {k \in 1..Len(invitations) : invitations[k].type # "public"}

\* "+ Create Sub-Invite" of a row's menu; the dialog covers the table
OpenSubInviteModal ==
    /\ \E k \in Rows :
          /\ ~IsDefined(showSubInviteModal)
          /\ canCreateSubInvite(invitations[k])
          /\ showSubInviteModal' = Some(invitations[k])
    /\ UNCHANGED <<initialInvitations, invitations, timers, now>>
    /\ UNCHANGED otherThanInvitations

\* onOpenChange of the dialog
CloseSubInviteModal ==
    /\ IsDefined(showSubInviteModal)
    /\ showSubInviteModal' = Undefined
    /\ UNCHANGED <<initialInvitations, invitations, timers, now>>
    /\ UNCHANGED otherThanInvitations

\* the form of the dialog is submitted with a valid email
SubmitSubInvitation ==
    /\ IsDefined(showSubInviteModal)
    /\ handleCreateSubInvitation(showSubInviteModal[1])
    /\ UNCHANGED otherThanInvitations

\* the handler called with any invitation of the list as it is now
CallCreateSubInvitation ==
    /\ \E k \in 1..Len(invitations) :
          handleCreateSubInvitation(invitations[k])
    /\ UNCHANGED otherThanInvitations

SendPersonalInvitation ==
    /\ ~isLoading
    /\ \E canInviteOthers \in BOOLEAN,
          maxSubInvites \in {Undefined, Some(1)} :
          /\ emailSchema([canInviteOthers |-> canInviteOthers,
                          maxSubInvites |-> maxSubInvites])
          /\ handleSendPersonalInvitation(
                 [canInviteOthers |-> canInviteOthers,
                  maxSubInvites |-> maxSubInvites])
    /\ UNCHANGED otherThanInvitations

\* the callback of the handler's setTimeout
PersonalInvitationAdded ==
    /\ timers # <<>>
    /\ invitations' = <<Head(timers)>> \o invitations
    /\ timers' = Tail(timers)
    /\ UNCHANGED <<initialInvitations, showSubInviteModal, now>>
    /\ UNCHANGED otherThanInvitations

\* the effect on [eventVisibility, eventId], when the caller changes them
ResetInvitations ==
    /\ \E eventVisibility \in {"public", "private"} :
          invitations' = getInitialInvitations(eventVisibility)
    /\ UNCHANGED <<initialInvitations, showSubInviteModal, timers, now>>
    /\ UNCHANGED otherThanInvitations

(***************************************************************************)
(* SpecInvitations: the manager mounted with invitations of the caller     *)
(* (generateMockInvitations reads an undeclared name and cannot supply     *)
(* them): the invitations of the mock data, and a list whose parents are   *)
(* one step from their limit or have none.                                 *)
(***************************************************************************)
InvitationProps ==
    { << Invitation(101, "personal", Undefined, Some(TRUE), Some(5),
                    Some(1), 0),
         Invitation(102, "hierarchical", Some(101), Undefined, Undefined,
                    Undefined, 0),
         Invitation(103, "personal", Undefined, Some(FALSE), Undefined,
                    Undefined, 0),
         Invitation(104, "private_link", Undefined, Some(TRUE), Some(3),
                    Some(0), 0) >>,
      << Invitation(101, "personal", Undefined, Some(TRUE), Some(1),
                    Undefined, 0),
         Invitation(102, "private_link", Undefined, Some(TRUE), Undefined,
                    Some(0), 0),
         Invitation(103, "personal", Undefined, Undefined, Some(2),
                    Some(0), 0) >> }

InitInvitations ==
    /\ ExpenseTrackerUnmounted
    /\ RSVPManagerUnmounted
    /\ RsvpPageUnmounted
    /\ TaskViewUnmounted
    /\ now = 0
    /\ initialInvitations \in InvitationProps
    /\ \E eventVisibility \in {"public", "private"} :
          invitations = getInitialInvitations(eventVisibility)
    /\ showSubInviteModal = Undefined

NextInvitations ==
    \/ OpenSubInviteModal \/ CloseSubInviteModal \/ SubmitSubInvitation
    \/ CallCreateSubInvitation \/ SendPersonalInvitation
    \/ PersonalInvitationAdded \/ ResetInvitations

SpecInvitations == InitInvitations /\ [][NextInvitations]_vars


(***************************************************************************)
(* Properties of the sub-invitations.                                      *)
(***************************************************************************)
\* the invitations this step adds to the list
Added == {k \in 1..Len(invitations') :
             /\ invitations'[k].createdAt = now'
             /\ now' > now
             /\ \A j \in 1..Len(invitations) :
                    invitations[j].id # invitations'[k].id}

\* invitation k may not get one more sub-invitation
AtLimitOrBarred(inv) ==
    \/ inv.canInviteOthers # Some(TRUE)
    \/ /\ inv.maxSubInvites # Undefined
       /\ OrNought(inv.subInvitesCount) >= OrNought(inv.maxSubInvites)

\* this step is a call of handleCreateSubInvitation with invitation k
CreatingFrom(k) == handleCreateSubInvitation(invitations[k])

\* C28: every invitation with maxSubInvites set has subInvitesCount at most
\* maxSubInvites; no sub-invitation is created from a parent whose
\* canInviteOthers is false; a refused creation leaves the list unchanged.
C28_SubInviteLimits ==
    /\ [](\A k \in 1..Len(invitations) :
            invitations[k].maxSubInvites # Undefined =>
                OrNought(invitations[k].subInvitesCount)
                    <= OrNought(invitations[k].maxSubInvites))
    /\ [][\A k \in 1..Len(invitations) :
            /\ (\E c \in Added :
                   invitations'[c].parentId = Some(invitations[k].id))
                  => invitations[k].canInviteOthers = Some(TRUE)
            /\ CreatingFrom(k) /\ AtLimitOrBarred(invitations[k])
                  => invitations' = invitations]_vars

\* a parent has reached its limit through a sub-invitation created here,
\* next to an invitation created here that may not invite
C28_Witness ==
    \E p, c, q \in 1..Len(invitations) :
        /\ invitations[p].maxSubInvites # Undefined
        /\ invitations[p].subInvitesCount = invitations[p].maxSubInvites
        /\ invitations[c].parentId = Some(invitations[p].id)
        /\ invitations[c].createdAt > 0
        /\ invitations[q].createdAt > 0
        /\ invitations[q].canInviteOthers = Some(FALSE)
        /\ invitations[q].type = "personal"


\* the invitations of the list with the given id
WithId(id) == {k \in 1..Len(invitations) : invitations[k].id = id}

\* the number of parent pointers followed from invitation k to an
\* invitation without a parent in the list; more than the length of the
\* list on a cycle
RECURSIVE LevelsBelowRoot(_, _)
LevelsBelowRoot(k, fuel) ==
    IF fuel = 0 THEN 1
    ELSE IF invitations[k].parentId = Undefined
            \/ WithId(invitations[k].parentId[1]) = {}
    THEN 0
    ELSE 1 + LevelsBelowRoot(
                 CHOOSE p \in WithId(invitations[k].parentId[1]) : TRUE,
                 fuel - 1)

CreatedAtRuntime(k) == invitations[k].createdAt > 0

ChildrenCreated(id) ==
    {c \in 1..Len(invitations) :
        /\ CreatedAtRuntime(c)
        /\ invitations[c].parentId = Some(id)}

\* the subInvitesCount the invitation with the given id came with
CountGiven(id) ==
    IF \E g \in 1..Len(initialInvitations) : initialInvitations[g].id = id
    THEN OrNought(initialInvitations[
             CHOOSE g \in 1..Len(initialInvitations) :
                 initialInvitations[g].id = id].subInvitesCount)
    ELSE 0

\* the list after one sub-invitation of the invitation at k was created
OneMoreFor(k) ==
    /\ Len(invitations') = Len(invitations) + 1
    /\ Added = {1}
    /\ invitations'[1].parentId = Some(invitations[k].id)
    /\ \A j \in 1..Len(invitations) :
          invitations'[j + 1] =
              IF j = k
              THEN [invitations[k] EXCEPT !.subInvitesCount =
                       Some(OrNought(invitations[k].subInvitesCount) + 1)]
              ELSE invitations[j]

\* the invitations the handler can be called with: a row of the table or
\* the invitation the dialog was opened for
Callable ==
    {invitations[k] : k \in 1..Len(invitations)}
        \cup (IF showSubInviteModal = Undefined THEN {}
              ELSE {showSubInviteModal[1]})

=============================================================================
